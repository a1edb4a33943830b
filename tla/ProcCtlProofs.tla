---------------------------- MODULE ProcCtlProofs ----------------------------
(* ProcCtl's safety, for any set of process numbers.                       *)
EXTENDS ProcCtl, TLAPS

\* Until main's kill the number in pid is its child's, dead or alive, or the
\* handler has reaped that child.
StillOurs == mpc \in {"wait", "kill"} => reaped \/ proc[pid] \in {"child", "zombie"}

IInv == TypeOK /\ NoneForgotten /\ ZombiesAnnounced /\ StillOurs

LEMMA InitIInv == Init => IInv
  <1> SUFFICES ASSUME Init PROVE IInv
    OBVIOUS
  <1> USE ProcCtlAssumption DEF Init
  <1>1. TypeOK /\ \A q \in Pids : proc[q] \in {"free", "stranger"}
    BY DEF TypeOK
  <1>2. NoneForgotten /\ ZombiesAnnounced /\ StillOurs
    BY <1>1 DEF NoneForgotten, ZombiesAnnounced, Zombies, StillOurs
  <1> QED
    BY <1>1, <1>2 DEF IInv

\* The types are kept; that Kill has a number to address is part of them.
LEMMA NextTypeOK == TypeOK /\ [Next]_vars => TypeOK'
  <1> SUFFICES ASSUME TypeOK, [Next]_vars PROVE TypeOK'
    OBVIOUS
  <1> USE ProcCtlAssumption DEF TypeOK
  <1>1. CASE Wake
    BY <1>1 DEF Wake
  <1>2. CASE Fork
    BY <1>2 DEF Fork
  <1>3. CASE Kill
    BY <1>3 DEF Kill
  <1>4. CASE Handler
    BY <1>4 DEF Handler, Deliver, Reap, Return, Zombies
  <1>5. ASSUME NEW q \in Pids, Ends(q) PROVE TypeOK'
    BY <1>5 DEF Ends
  <1>6. ASSUME NEW q \in Pids, Stranger(q) PROVE TypeOK'
    BY <1>6 DEF Stranger
  <1>7. CASE UNCHANGED vars
    BY <1>7 DEF vars
  <1> QED
    BY <1>1, <1>2, <1>3, <1>4, <1>5, <1>6, <1>7 DEF Next, Main

\* Only Fork makes a child run, and only from there does main go to Wake and Kill.
LEMMA NextNoneForgotten == IInv /\ TypeOK' /\ [Next]_vars => NoneForgotten'
  <1> SUFFICES ASSUME IInv, TypeOK', [Next]_vars PROVE NoneForgotten'
    OBVIOUS
  <1> USE ProcCtlAssumption DEF IInv, TypeOK, NoneForgotten
  <1>1. CASE Wake
    BY <1>1 DEF Wake
  <1>2. CASE Fork
    BY <1>2 DEF Fork
  <1>3. CASE Kill
    <2>1. \A q \in Pids : proc[q] = "child" => q \in Addressed
      BY DEF Addressed
    <2>2. \A q \in Pids : proc'[q] # "child"
      BY <1>3, <2>1 DEF Kill
    <2> QED
      BY <2>2
  <1>4. CASE Handler
    BY <1>4 DEF Handler, Deliver, Reap, Return, Zombies
  <1>5. ASSUME NEW q \in Pids, Ends(q) PROVE NoneForgotten'
    BY <1>5 DEF Ends
  <1>6. ASSUME NEW q \in Pids, Stranger(q) PROVE NoneForgotten'
    BY <1>6 DEF Stranger
  <1>7. CASE UNCHANGED vars
    BY <1>7 DEF vars
  <1> QED
    BY <1>1, <1>2, <1>3, <1>4, <1>5, <1>6, <1>7 DEF Next, Main

\* Only Ends makes a zombie, and it makes the signal pending; the handler returns
\* only when there are none.
LEMMA NextZombiesAnnounced == IInv /\ [Next]_vars => ZombiesAnnounced'
  <1> SUFFICES ASSUME IInv, [Next]_vars PROVE ZombiesAnnounced'
    OBVIOUS
  <1> USE ProcCtlAssumption DEF IInv, TypeOK, ZombiesAnnounced, Zombies
  <1>1. CASE Wake
    BY <1>1 DEF Wake
  <1>2. CASE Fork
    BY <1>2 DEF Fork
  <1>3. CASE Kill
    BY <1>3 DEF Kill
  <1>4. CASE Handler
    BY <1>4 DEF Handler, Deliver, Reap, Return
  <1>5. ASSUME NEW q \in Pids, Ends(q) PROVE ZombiesAnnounced'
    BY <1>5 DEF Ends
  <1>6. ASSUME NEW q \in Pids, Stranger(q) PROVE ZombiesAnnounced'
    BY <1>6 DEF Stranger
  <1>7. CASE UNCHANGED vars
    BY <1>7 DEF vars
  <1> QED
    BY <1>1, <1>2, <1>3, <1>4, <1>5, <1>6, <1>7 DEF Next, Main

LEMMA NextStillOurs == IInv /\ TypeOK' /\ [Next]_vars => StillOurs'
  <1> SUFFICES ASSUME IInv, TypeOK', [Next]_vars PROVE StillOurs'
    OBVIOUS
  <1> USE ProcCtlAssumption DEF IInv, TypeOK, StillOurs
  <1>1. CASE Wake
    BY <1>1 DEF Wake
  <1>2. CASE Fork
    BY <1>2 DEF Fork
  <1>3. CASE Kill
    BY <1>3 DEF Kill
  <1>4. CASE Handler
    BY <1>4 DEF Handler, Deliver, Reap, Return, Zombies
  <1>5. ASSUME NEW q \in Pids, Ends(q) PROVE StillOurs'
    BY <1>5 DEF Ends
  <1>6. ASSUME NEW q \in Pids, Stranger(q) PROVE StillOurs'
    BY <1>6 DEF Stranger
  <1>7. CASE UNCHANGED vars
    BY <1>7 DEF vars
  <1> QED
    BY <1>1, <1>2, <1>3, <1>4, <1>5, <1>6, <1>7 DEF Next, Main

LEMMA Inductive == Spec => []IInv
  <1>1. Init => IInv
    BY InitIInv
  <1>2. IInv /\ [Next]_vars => IInv'
    BY NextTypeOK, NextNoneForgotten, NextZombiesAnnounced, NextStillOurs DEF IInv
  <1> QED
    BY <1>1, <1>2, PTL DEF Spec

\* main's pid always has its type, and is no error when it sleeps before kill.
THEOREM TypeCorrect == Spec => []TypeOK
  <1>1. IInv => TypeOK
    BY DEF IInv
  <1> QED
    BY <1>1, Inductive, PTL

\* main knows every child that runs, and is about to kill it.
THEOREM ChildrenAreKnown == Spec => []NoneForgotten
  <1>1. IInv => NoneForgotten
    BY DEF IInv
  <1> QED
    BY <1>1, Inductive, PTL

\* A child that has ended is always announced to the handler.
THEOREM ZombiesStayAnnounced == Spec => []ZombiesAnnounced
  <1>1. IInv => ZombiesAnnounced
    BY DEF IInv
  <1> QED
    BY <1>1, Inductive, PTL

\* A process of somebody else is only killed under the number of a reaped child.
THEOREM StrangersAreSpared == Spec => KillsItsOwn
  <1> DEFINE Own == \A q \in Pids :
          mpc = "kill" /\ mpc' = "nap" /\ proc[q] = "stranger" /\ proc'[q] = "free"
            => pid = q /\ reaped
  <1>1. IInv /\ [Next]_vars => [Own]_vars
    <2> SUFFICES ASSUME IInv, [Next]_vars, NEW q \in Pids,
                        mpc = "kill", mpc' = "nap", proc[q] = "stranger", proc'[q] = "free"
                 PROVE pid = q /\ reaped
      OBVIOUS
    <2>1. Kill
      BY DEF Next, Main, Wake, Fork, Handler, Deliver, Reap, Return, Ends, Stranger, vars
    <2>2. q \in Addressed
      BY <2>1 DEF Kill
    <2>3. pid \in Pids /\ pid # Failed
      BY DEF IInv, TypeOK
    <2>4. pid = q
      BY <2>2, <2>3, ProcCtlAssumption DEF Addressed
    <2> QED
      BY <2>4 DEF IInv, StillOurs
  <1> QED
    BY <1>1, Inductive, PTL DEF Spec, KillsItsOwn

=============================================================================
