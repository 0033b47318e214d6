----------------------------- MODULE MCWorkspace -----------------------------
(* Small instances of Workspace.  Each mix gives one part of the daemon room  *)
(* and the others a little; a behaviour starts with one of them.              *)
EXTENDS Workspace

None == [running |-> 0, terminals |-> 0, claims |-> 0, sweeps |-> 0, reconciles |-> 0,
         asks |-> 0, fyis |-> 0, writes |-> 0, sends |-> 0, notes |-> 0, window |-> 0, faults |-> 0]

\* Two agents and their claims; a terminal made beside a reconcile and the
\* gateway's sweep; questions and a fyi; a window that falls behind; a window
\* that meets a change it does not know; a message on its way beside a write;
\* terminals that end, and a question, under a window.
MCMixes == {
  [None EXCEPT !.running = 1, !.claims = 3],
  [None EXCEPT !.terminals = 1, !.claims = 1, !.sweeps = 1, !.reconciles = 1, !.faults = 1],
  [None EXCEPT !.asks = 3, !.fyis = 1, !.faults = 1],
  [None EXCEPT !.writes = 4, !.window = 1, !.faults = 1],
  [None EXCEPT !.writes = 3, !.notes = 1, !.window = 1, !.faults = 1],
  [None EXCEPT !.sends = 1, !.writes = 1, !.window = 1, !.faults = 1],
  [None EXCEPT !.running = 1, !.claims = 1, !.window = 1],
  [None EXCEPT !.asks = 1, !.fyis = 1, !.window = 1]}
\* One write and one status of a terminal, with a window open.
WedgeMixes == {[None EXCEPT !.writes = 2, !.notes = 1, !.window = 1]}

\* A directory, a file in it, and a file elsewhere.
MCPaths == {"d", "d/f", "e"}
MCWithin == {<<"d/f", "d">>}
MCWants == {{}, {"d"}, {"d/f"}, {"d/f", "e"}}
=============================================================================
