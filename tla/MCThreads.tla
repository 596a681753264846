-------------------------------- MODULE MCThreads -----------------------------
(***************************************************************************)
(* ThreadsSystem with two clients at a time: a and b queue a transaction   *)
(* each while a third runs, c and e have more to say to the dispatcher.    *)
(* Without clients it comes to rest, and then it is the turn of the        *)
(* connection, which has a dispatcher of its own in Connection.            *)
(***************************************************************************)
EXTENDS ThreadsSystem, Connection

CONSTANTS a, b, c, e, t1, t2, t3, d, col, w1, w2, w3, w4, w5

VARIABLE part          \* the clients that send

MCTask == {t1, t2, t3, d, col}

MCTransaction == {t1, t2, t3}

MCEffect == [x \in {<<a, 1>>, <<b, 1>>} |-> IF x[1] = a THEN t1 ELSE t2]

MCMessages == [x \in {a, b, c, e} |-> IF x = c THEN 2 ELSE 1]

MCKinds == [x \in {a, b, c, e} |->
  CASE x = b -> {"exec"} [] x = c -> {"exec", "schedule"} [] OTHER -> {"schedule"}]

(* No fair step of ThreadsSystem is left to take.                          *)
AtRest ==
  /\ part = {} /\ AllDone /\ now = MaxTime /\ stopping = "no"
  /\ \A w \in Thread : thread[w] \notin {"free", "awake"}

MCNext ==
  \/ /\ Next /\ ~AtRest
     /\ \A x \in Client \ part : sent'[x] = 0
     /\ part = {} => stopping' = "no"
     /\ UNCHANGED connection_state
  \/ AtRest /\ ConnectionNext /\ UNCHANGED vars

ConnectionStep(step) == AtRest /\ step /\ UNCHANGED vars

(* The threads are scheduled, and iks_recv returns in time.                *)
ConnectionFairness ==
  /\ WF_connection_state(ConnectionStep(Main))
  /\ WF_connection_state(ConnectionStep(RecvCheck \/ RecvStanza))
  /\ WF_connection_state(ConnectionStep(SendStanza))
  /\ WF_connection_state(ConnectionStep(Core))

MCInit == Init /\ ConnectionInit /\ part \in {{a, b}, {c, e}, {}}

MCSpec ==
  /\ MCInit
  /\ [][MCNext /\ UNCHANGED part]_<<vars, connection_state, part>>
  /\ Fairness /\ ConnectionFairness
=============================================================================
