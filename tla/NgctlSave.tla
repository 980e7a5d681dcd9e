----------------------------- MODULE NgctlSave -----------------------------
(***************************************************************************)
(* ngctl_save, php-ngctl/ngctl.c: the nodes of a netgraph are written to   *)
(* the scratch database ngraph.tmp, which is copied over ngraph when all   *)
(* were in order.  What is put into a database stays in its handle until   *)
(* it is closed.  The nodes are what ngctl_list gives, and an array that a *)
(* caller made may have nodes ngctl_save does not take.                    *)
(***************************************************************************)
EXTENDS Integers, Sequences, FiniteSets

CONSTANTS
  Graphs,       \* the arrays that are saved, sequences of nodes
  NoNode,       \* nothing: no graph, a row the database did not take
  NgProcs,
  NgCalls,      \* bound on calls
  NgDeaths,     \* bound on deaths
  NgRefuses     \* whether a database may refuse to be opened, to take a row, to be copied

\* a node by what ngctl_save finds in it: an eiface, which it passes over, one it
\* stores, one whose type, name or hooks are wrong, one that has no hooks at all
NodeKinds == {"eiface", "sound", "wrong", "hookless"}

ASSUME NgAssumption ==
  /\ \A g \in Graphs : /\ g \in Seq({g[i] : i \in DOMAIN g})
                        /\ \A i \in DOMAIN g : g[i].kind \in NodeKinds
  /\ NgCalls \in Nat /\ NgDeaths \in Nat /\ NgRefuses \in BOOLEAN

VARIABLES
  ngraph, ngtmp,     \* rows of the two databases
  ngpc,              \* per process: idle, nodes, copy
  nggraph, ngat,     \* the array that is saved and the next node
  ngrows,            \* the rows in its handle
  ngsaved,           \* history: the array of the last call that returned true
  ngturns,           \* history: no two calls have overlapped
  ngcalls, ngdeaths

ngVars == <<ngraph, ngtmp, ngpc, nggraph, ngat, ngrows, ngsaved, ngturns, ngcalls, ngdeaths>>

NgInit ==
  /\ ngraph = <<>> /\ ngtmp = <<>>
  /\ ngpc = [p \in NgProcs |-> "idle"]
  /\ nggraph = [p \in NgProcs |-> <<>>] /\ ngat = [p \in NgProcs |-> 1]
  /\ ngrows = [p \in NgProcs |-> <<>>]
  /\ ngsaved = <<>> /\ ngturns = TRUE
  /\ ngcalls = 0 /\ ngdeaths = 0

NgGoes(p, step) == ngpc' = [ngpc EXCEPT ![p] = step]

\* Mutant: the rows of the save before stay in the scratch database.
NgOpenFull(p) ==
  /\ ngpc[p] = "idle" /\ ngcalls < NgCalls
  /\ \E g \in Graphs : nggraph' = [nggraph EXCEPT ![p] = g]
  /\ ngat' = [ngat EXCEPT ![p] = 1]
  /\ ngrows' = [ngrows EXCEPT ![p] = ngtmp]
  /\ NgGoes(p, "nodes")
  /\ ngturns' = (ngturns /\ \A q \in NgProcs : ngpc[q] = "idle")
  /\ ngcalls' = ngcalls + 1
  /\ UNCHANGED <<ngraph, ngtmp, ngsaved, ngdeaths>>

\* a refused open changes nothing, and is no call here
NgOpen(p) ==
  /\ ngpc[p] = "idle" /\ ngcalls < NgCalls
  /\ \E g \in Graphs : nggraph' = [nggraph EXCEPT ![p] = g]
  /\ ngat' = [ngat EXCEPT ![p] = 1]
  /\ ngrows' = [ngrows EXCEPT ![p] = <<>>]
  /\ NgGoes(p, "nodes")
  /\ ngturns' = (ngturns /\ \A q \in NgProcs : ngpc[q] = "idle")
  /\ ngcalls' = ngcalls + 1
  /\ UNCHANGED <<ngraph, ngtmp, ngsaved, ngdeaths>>

NgNode(p) == nggraph[p][ngat[p]]

\* the keys count on whether the row was taken or not; nobody looks
NgStore(p) ==
  /\ ngpc[p] = "nodes" /\ ngat[p] <= Len(nggraph[p])
  /\ NgNode(p).kind \in {"eiface", "sound"}
  /\ ngat' = [ngat EXCEPT ![p] = @ + 1]
  /\ \/ NgNode(p).kind = "eiface" /\ UNCHANGED ngrows
     \/ NgNode(p).kind = "sound" /\ ngrows' = [ngrows EXCEPT ![p] = Append(@, NgNode(p))]
     \/ NgNode(p).kind = "sound" /\ NgRefuses /\ ngrows' = [ngrows EXCEPT ![p] = Append(@, NoNode)]
  /\ UNCHANGED <<ngraph, ngtmp, ngpc, nggraph, ngsaved, ngturns, ngcalls, ngdeaths>>

\* a wrong node ends the call, with a scratch database of the nodes before it; without
\* hooks, it ends without closing that
NgWrong(p) ==
  /\ ngpc[p] = "nodes" /\ ngat[p] <= Len(nggraph[p])
  /\ \/ NgNode(p).kind = "wrong" /\ ngtmp' = ngrows[p]
     \/ NgNode(p).kind = "hookless" /\ UNCHANGED ngtmp
  /\ NgGoes(p, "idle")
  /\ UNCHANGED <<ngraph, nggraph, ngat, ngrows, ngsaved, ngturns, ngcalls, ngdeaths>>

NgClose(p) ==
  /\ ngpc[p] = "nodes" /\ ngat[p] > Len(nggraph[p])
  /\ ngtmp' = ngrows[p]
  /\ NgGoes(p, "copy")
  /\ UNCHANGED <<ngraph, nggraph, ngat, ngrows, ngsaved, ngturns, ngcalls, ngdeaths>>

NgCopy(p) ==
  /\ ngpc[p] = "copy"
  /\ \/ ngraph' = ngtmp /\ ngsaved' = nggraph[p]
     \/ NgRefuses /\ UNCHANGED <<ngraph, ngsaved>>
  /\ NgGoes(p, "idle")
  /\ UNCHANGED <<ngtmp, nggraph, ngat, ngrows, ngturns, ngcalls, ngdeaths>>

NgDie(p) ==
  /\ ngpc[p] # "idle" /\ ngdeaths < NgDeaths
  /\ NgGoes(p, "idle")
  /\ ngdeaths' = ngdeaths + 1
  /\ UNCHANGED <<ngraph, ngtmp, nggraph, ngat, ngrows, ngsaved, ngturns, ngcalls>>

NgNext == \E p \in NgProcs :
  NgOpen(p) \/ NgStore(p) \/ NgWrong(p) \/ NgClose(p) \/ NgCopy(p) \/ NgDie(p)
NgSpec == NgInit /\ [][NgNext]_ngVars

-----------------------------------------------------------------------------
(* Properties.                                                             *)

\* the first n nodes of g are in order, and rows are those that are stored, in their
\* order: row i is of node at[i], or is missing
RowsOf(rows, g, n) ==
  \E at \in [DOMAIN rows -> 1 .. n] :
    /\ \A i, j \in DOMAIN rows : i < j => at[i] < at[j]
    /\ \A i \in DOMAIN rows : g[at[i]].kind = "sound" /\ rows[i] \in {g[at[i]], NoNode}
    /\ \A k \in 1 .. n : g[k].kind = "eiface" \/ \E i \in DOMAIN rows : at[i] = k

\* ngctl_save (416): while calls take turns, the rows of ngraph are the nodes of the
\* array the last call was given that returned true, in their order, without the
\* eifaces and with nothing of a call that failed or died on the way; a row that the
\* database did not take is missing, as nobody looks at what bdb_set returns.
GraphAsSaved == ngturns => RowsOf(ngraph, ngsaved, Len(ngsaved))
=============================================================================
