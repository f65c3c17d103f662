------------------------- MODULE CredentialsProofs -------------------------
(***************************************************************************)
(* A closed execution leaves a credential behind only for one of the stated *)
(* reasons, for any executions, workers and bounds.                         *)
(*                                                                         *)
(* LeftoversAreExcused speaks of executions nobody has in hand, so it says  *)
(* nothing of the steps on the way there.  The inductive invariant says who *)
(* is still going to clean up or to excuse each credential: whoever is      *)
(* making it, or whoever is closing its execution.                          *)
(***************************************************************************)
EXTENDS Credentials, TLAPS

\* Nothing has excused the credential of e yet.
Silent(e) == e \in credentials /\ why[e] = {}

Holds(w, e, steps) == Hand(w) = e /\ workers[w].step \in steps

Starting == {"secret", "job", "record", "failed"}

\* An execution is fresh until it is dispatched.
FreshIsUntouched ==
    \A e \in Execution, w \in Worker :
        rows[e] = "none" => Hand(w) # e /\ e \notin credentials

\* An execution is dispatched once.
OneStarter ==
    \A e \in Execution : \A v, w \in Worker :
        Holds(v, e, Starting) /\ Holds(w, e, Starting) => v = w

\* A failed start has taken its credential away, or could not.
FailedIsClean ==
    \A e \in Execution, w \in Worker : Holds(w, e, {"failed"}) => ~Silent(e)

BeingMade(e) == \E v \in Worker : Holds(v, e, {"job", "record"})

\* A Secret that a recovery did not find was made after it looked.
LostIsBeingMade ==
    \A e \in Execution, w \in Worker :
        Holds(w, e, {"lost"}) /\ Silent(e) /\ rows[e] = "pending" => BeingMade(e)

\* No row names the key file of a pending local execution.
LocalIsBeingMade ==
    \A e \in Local : Silent(e) /\ rows[e] = "pending" => BeingMade(e)

BeingKept(e) == \E v \in Worker : Holds(v, e, {"job", "record", "close", "clean"})

ClosedIsBeingKept ==
    \A e \in Execution : Silent(e) /\ Closed(e) => BeingKept(e)

IInv ==
    /\ CredentialsTypeOK
    /\ FreshIsUntouched
    /\ OneStarter
    /\ FailedIsClean
    /\ LostIsBeingMade
    /\ LocalIsBeingMade
    /\ ClosedIsBeingKept

-----------------------------------------------------------------------------
(* Proofs.                                                                 *)

LEMMA IInvInit == Init => IInv
<1> SUFFICES ASSUME Init PROVE IInv
  OBVIOUS
<1> USE CredentialsAssumption DEF Init, Idle, Holds, Silent, Closed, Hand
<1>1. CredentialsTypeOK
  BY DEF CredentialsTypeOK, Status, Job, Step
<1>2. FreshIsUntouched /\ OneStarter /\ FailedIsClean
  BY DEF FreshIsUntouched, OneStarter, FailedIsClean, Starting
<1>3. LostIsBeingMade /\ LocalIsBeingMade /\ ClosedIsBeingKept
  BY DEF LostIsBeingMade, LocalIsBeingMade, ClosedIsBeingKept
<1> QED BY <1>1, <1>2, <1>3 DEF IInv

\* Whatever a deletion does, it takes the credential away or excuses it, and it
\* does so for this execution only.
LEMMA ExcuseSilences ==
    ASSUME CredentialsTypeOK, NEW e \in Execution, NEW reason \in Reason,
           Excuse(e, reason), UNCHANGED credentials
    PROVE  ~Silent(e)' /\ \A x \in Execution \ {e} : Silent(x)' => Silent(x)
BY DEF CredentialsTypeOK, Excuse, Silent

LEMMA DeleteSilences ==
    ASSUME CredentialsTypeOK, NEW e \in Execution, DeleteBoth(e)
    PROVE  ~Silent(e)' /\ \A x \in Execution \ {e} : Silent(x)' => Silent(x)
<1>1. CASE credentials' = credentials \ {e} /\ UNCHANGED why
  BY <1>1 DEF Silent
<1>2. CASE Excuse(e, "delete") /\ UNCHANGED credentials
  BY <1>2, ExcuseSilences DEF Reason
<1> QED BY <1>1, <1>2 DEF DeleteBoth

LEMMA IInvStep == IInv /\ [Next]_vars => IInv'
<1> SUFFICES ASSUME IInv, [Next]_vars PROVE IInv'
  OBVIOUS
<1> USE CredentialsAssumption
<1>1. ASSUME NEW w \in Worker, CreateSecret(w) PROVE IInv'
  <2>1. CredentialsTypeOK'
    BY <1>1 DEF IInv, CredentialsTypeOK, CreateSecret, At, GoTo, Hand, Status, Job,
        Step, Reason, Idle
  <2>2. FreshIsUntouched'
    BY <1>1 DEF IInv, CredentialsTypeOK, CreateSecret, At, GoTo, Hand,
        FreshIsUntouched
  <2>3. OneStarter'
    BY <1>1 DEF IInv, CredentialsTypeOK, CreateSecret, At, GoTo, Hand, OneStarter,
        FreshIsUntouched, Starting, Holds
  <2>4. FailedIsClean'
    BY <1>1 DEF IInv, CredentialsTypeOK, CreateSecret, At, GoTo, Hand,
        FailedIsClean, OneStarter, Starting, Holds, Silent
  <2>5. LostIsBeingMade'
    BY <1>1 DEF IInv, CredentialsTypeOK, CreateSecret, At, GoTo, Hand,
        LostIsBeingMade, BeingMade, Holds, Silent
  <2>6. LocalIsBeingMade'
    BY <1>1 DEF IInv, CredentialsTypeOK, CreateSecret, At, GoTo, Hand,
        LocalIsBeingMade, BeingMade, Holds, Silent
  <2>7. ClosedIsBeingKept'
    BY <1>1 DEF IInv, CredentialsTypeOK, CreateSecret, At, GoTo, Hand,
        ClosedIsBeingKept, BeingKept, Holds, Closed, Silent
  <2> QED BY <2>1, <2>2, <2>3, <2>4, <2>5, <2>6, <2>7 DEF IInv
<1>2. ASSUME NEW w \in Worker, CreateJob(w) PROVE IInv'
  <2>1. CredentialsTypeOK'
    BY <1>2 DEF IInv, CredentialsTypeOK, CreateJob, At, GoTo, Hand, Status, Job,
        Step, Reason, Idle
  <2>2. FreshIsUntouched'
    BY <1>2 DEF IInv, CredentialsTypeOK, CreateJob, At, GoTo, Hand, FreshIsUntouched
  <2>3. OneStarter'
    BY <1>2 DEF IInv, CredentialsTypeOK, CreateJob, At, GoTo, Hand, OneStarter,
        FreshIsUntouched, Starting, Holds
  <2>4. FailedIsClean'
    BY <1>2 DEF IInv, CredentialsTypeOK, CreateJob, At, GoTo, Hand, FailedIsClean,
        OneStarter, Starting, Holds, Silent
  <2>5. LostIsBeingMade'
    BY <1>2 DEF IInv, CredentialsTypeOK, CreateJob, At, GoTo, Hand, LostIsBeingMade,
        BeingMade, Holds, Silent
  <2>6. LocalIsBeingMade'
    BY <1>2 DEF IInv, CredentialsTypeOK, CreateJob, At, GoTo, Hand,
        LocalIsBeingMade, BeingMade, Holds, Silent
  <2>7. ClosedIsBeingKept'
    BY <1>2 DEF IInv, CredentialsTypeOK, CreateJob, At, GoTo, Hand,
        ClosedIsBeingKept, BeingKept, Holds, Closed, Silent
  <2> QED BY <2>1, <2>2, <2>3, <2>4, <2>5, <2>6, <2>7 DEF IInv
<1>3. ASSUME NEW w \in Worker, StartRaises(w) PROVE IInv'
  <2> PICK h \in Execution : h = Hand(w)
    BY <1>3 DEF IInv, CredentialsTypeOK, StartRaises, At, Hand
  <2>0. ~Silent(h)' /\ \A x \in Execution \ {h} : Silent(x)' => Silent(x)
    BY <1>3, DeleteSilences DEF StartRaises, IInv, Reason
  <2>1. CredentialsTypeOK'
    BY <1>3 DEF IInv, CredentialsTypeOK, StartRaises, GoTo, DeleteBoth, Excuse,
        Fault, Hand, Status, Job, Step, Reason, Idle
  <2>2. FreshIsUntouched'
    BY <1>3 DEF IInv, CredentialsTypeOK, StartRaises, GoTo, DeleteBoth, Excuse,
        Fault, Hand, FreshIsUntouched
  <2>3. OneStarter'
    BY <1>3 DEF IInv, CredentialsTypeOK, StartRaises, GoTo, DeleteBoth, Excuse,
        Fault, Hand, OneStarter, FreshIsUntouched, Starting, Holds
  <2>4. FailedIsClean'
    BY <1>3, <2>0 DEF IInv, CredentialsTypeOK, StartRaises, GoTo, Hand,
        FailedIsClean, OneStarter, Starting, Holds
  <2>5. LostIsBeingMade'
    BY <1>3, <2>0 DEF IInv, CredentialsTypeOK, StartRaises, GoTo, Hand,
        LostIsBeingMade, BeingMade, Holds
  <2>6. LocalIsBeingMade'
    BY <1>3, <2>0 DEF IInv, CredentialsTypeOK, StartRaises, GoTo, Hand,
        LocalIsBeingMade, BeingMade, Holds
  <2>7. ClosedIsBeingKept'
    BY <1>3, <2>0 DEF IInv, CredentialsTypeOK, StartRaises, GoTo, Hand,
        ClosedIsBeingKept, BeingKept, Holds, Closed
  <2> QED BY <2>1, <2>2, <2>3, <2>4, <2>5, <2>6, <2>7 DEF IInv
<1>4. ASSUME NEW w \in Worker, CommitStartFailure(w) PROVE IInv'
  <2>1. CredentialsTypeOK'
    BY <1>4 DEF IInv, CredentialsTypeOK, CommitStartFailure, At, Release, Idle,
        Hand, Status, Job, Step, Reason
  <2>2. FreshIsUntouched'
    BY <1>4 DEF IInv, CredentialsTypeOK, CommitStartFailure, At, Release, Idle,
        Hand, FreshIsUntouched
  <2>3. OneStarter'
    BY <1>4 DEF IInv, CredentialsTypeOK, CommitStartFailure, At, Release, Idle,
        Hand, OneStarter, FreshIsUntouched, Starting, Holds
  <2>4. FailedIsClean'
    BY <1>4 DEF IInv, CredentialsTypeOK, CommitStartFailure, At, Release, Idle,
        Hand, FailedIsClean, OneStarter, Starting, Holds, Silent
  <2>5. LostIsBeingMade'
    BY <1>4 DEF IInv, CredentialsTypeOK, CommitStartFailure, At, Release, Idle,
        Hand, LostIsBeingMade, BeingMade, Holds, Silent
  <2>6. LocalIsBeingMade'
    BY <1>4 DEF IInv, CredentialsTypeOK, CommitStartFailure, At, Release, Idle,
        Hand, LocalIsBeingMade, BeingMade, Holds, Silent
  <2>7. ClosedIsBeingKept'
    BY <1>4 DEF IInv, CredentialsTypeOK, CommitStartFailure, At, Release, Idle,
        Hand, ClosedIsBeingKept, BeingKept, Holds, Closed, Silent, FailedIsClean
  <2> QED BY <2>1, <2>2, <2>3, <2>4, <2>5, <2>6, <2>7 DEF IInv
<1>5. ASSUME NEW w \in Worker, Record(w) PROVE IInv'
  <2>1. CredentialsTypeOK'
    BY <1>5 DEF IInv, CredentialsTypeOK, Record, At, Release, Idle, Hand, Status,
        Job, Step, Reason
  <2>2. FreshIsUntouched'
    BY <1>5 DEF IInv, CredentialsTypeOK, Record, At, Release, Idle, Hand,
        FreshIsUntouched
  <2>3. OneStarter'
    BY <1>5 DEF IInv, CredentialsTypeOK, Record, At, Release, Idle, Hand,
        OneStarter, FreshIsUntouched, Starting, Holds
  <2>4. FailedIsClean'
    BY <1>5 DEF IInv, CredentialsTypeOK, Record, At, Release, Idle, Hand,
        FailedIsClean, OneStarter, Starting, Holds, Silent
  <2>5. LostIsBeingMade'
    BY <1>5 DEF IInv, CredentialsTypeOK, Record, At, Release, Idle, Hand,
        LostIsBeingMade, BeingMade, Holds, Silent
  <2>6. LocalIsBeingMade'
    BY <1>5 DEF IInv, CredentialsTypeOK, Record, At, Release, Idle, Hand,
        LocalIsBeingMade, BeingMade, Holds, Silent
  <2>7. ClosedIsBeingKept'
    BY <1>5 DEF IInv, CredentialsTypeOK, Record, At, Release, Idle, Hand,
        ClosedIsBeingKept, BeingKept, Holds, Closed, Silent
  <2> QED BY <2>1, <2>2, <2>3, <2>4, <2>5, <2>6, <2>7 DEF IInv
<1>6. ASSUME NEW w \in Worker, LookFinds(w) PROVE IInv'
  <2>1. CredentialsTypeOK'
    BY <1>6 DEF IInv, CredentialsTypeOK, LookFinds, At, GoTo, Hand, Status, Job,
        Step, Reason, Idle
  <2>2. FreshIsUntouched'
    BY <1>6 DEF IInv, CredentialsTypeOK, LookFinds, At, GoTo, Hand, FreshIsUntouched
  <2>3. OneStarter'
    BY <1>6 DEF IInv, CredentialsTypeOK, LookFinds, At, GoTo, Hand, OneStarter,
        FreshIsUntouched, Starting, Holds
  <2>4. FailedIsClean'
    BY <1>6 DEF IInv, CredentialsTypeOK, LookFinds, At, GoTo, Hand, FailedIsClean,
        OneStarter, Starting, Holds, Silent
  <2>5. LostIsBeingMade'
    BY <1>6 DEF IInv, CredentialsTypeOK, LookFinds, At, GoTo, Hand, LostIsBeingMade,
        BeingMade, Holds, Silent
  <2>6. LocalIsBeingMade'
    BY <1>6 DEF IInv, CredentialsTypeOK, LookFinds, At, GoTo, Hand,
        LocalIsBeingMade, BeingMade, Holds, Silent
  <2>7. ClosedIsBeingKept'
    BY <1>6 DEF IInv, CredentialsTypeOK, LookFinds, At, GoTo, Hand,
        ClosedIsBeingKept, BeingKept, Holds, Closed, Silent
  <2> QED BY <2>1, <2>2, <2>3, <2>4, <2>5, <2>6, <2>7 DEF IInv
<1>7. ASSUME NEW w \in Worker, LookMisses(w) PROVE IInv'
  <2> PICK h \in Execution : h = Hand(w)
    BY <1>7 DEF IInv, CredentialsTypeOK, LookMisses, At, Hand
  <2>0. /\ h \notin Local => ~Silent(h)'
        /\ \A x \in Execution : x # h \/ x \in Local => (Silent(x)' => Silent(x))
    <3>1. CASE h \in Local
      BY <1>7, <3>1 DEF LookMisses, Silent
    <3>2. CASE h \notin Local
      BY <1>7, <3>2, DeleteSilences DEF LookMisses, IInv
    <3> QED BY <3>1, <3>2
  <2>1. CredentialsTypeOK'
    BY <1>7 DEF IInv, CredentialsTypeOK, LookMisses, At, GoTo, DeleteBoth, Excuse,
        Fault, Hand, Status, Job, Step, Reason, Idle
  <2>2. FreshIsUntouched'
    BY <1>7 DEF IInv, CredentialsTypeOK, LookMisses, At, GoTo, DeleteBoth, Excuse,
        Fault, Hand, FreshIsUntouched
  <2>3. OneStarter'
    BY <1>7 DEF IInv, CredentialsTypeOK, LookMisses, At, GoTo, DeleteBoth, Excuse,
        Fault, Hand, OneStarter, FreshIsUntouched, Starting, Holds
  <2>4. FailedIsClean'
    BY <1>7, <2>0 DEF IInv, CredentialsTypeOK, LookMisses, At, GoTo, Hand,
        FailedIsClean, OneStarter, Starting, Holds
  <2>5. LostIsBeingMade'
    BY <1>7, <2>0 DEF IInv, CredentialsTypeOK, LookMisses, At, GoTo, Hand,
        LostIsBeingMade, BeingMade, Holds, LocalIsBeingMade
  <2>6. LocalIsBeingMade'
    BY <1>7, <2>0 DEF IInv, CredentialsTypeOK, LookMisses, At, GoTo, Hand,
        LocalIsBeingMade, BeingMade, Holds
  <2>7. ClosedIsBeingKept'
    BY <1>7, <2>0 DEF IInv, CredentialsTypeOK, LookMisses, At, GoTo, Hand,
        ClosedIsBeingKept, BeingKept, Holds, Closed
  <2> QED BY <2>1, <2>2, <2>3, <2>4, <2>5, <2>6, <2>7 DEF IInv
<1>8. ASSUME NEW w \in Worker, CommitRecovery(w) PROVE IInv'
  <2>0. /\ UNCHANGED credentials
        /\ \A x \in Execution : Silent(x)' =>
                /\ Silent(x)
                /\ At(w, "lost") /\ x = Hand(w) => rows[x] # "running"
    <3>1. UNCHANGED credentials
      BY <1>8 DEF CommitRecovery
    <3>2. CASE Excuse(Hand(w), "overwritten")
      <4>1. Hand(w) \in Execution
        BY <1>8 DEF IInv, CredentialsTypeOK, CommitRecovery, Hand
      <4> QED BY <3>1, <3>2, <4>1, ExcuseSilences DEF Reason, IInv
    <3>3. CASE UNCHANGED why /\ ~(At(w, "lost") /\ rows[Hand(w)] = "running")
      BY <3>1, <3>3 DEF Silent
    <3> QED BY <1>8, <3>1, <3>2, <3>3 DEF CommitRecovery
  <2>1. CredentialsTypeOK'
    BY <1>8 DEF IInv, CredentialsTypeOK, CommitRecovery, At, Release, Idle, Excuse, Hand,
        Status, Job, Step, Reason
  <2>2. FreshIsUntouched'
    BY <1>8 DEF IInv, CredentialsTypeOK, CommitRecovery, At, Release, Idle, Hand,
        FreshIsUntouched
  <2>3. OneStarter'
    BY <1>8 DEF IInv, CredentialsTypeOK, CommitRecovery, At, Release, Idle, Hand,
        OneStarter, FreshIsUntouched, Starting, Holds
  <2>4. FailedIsClean'
    BY <1>8, <2>0 DEF IInv, CredentialsTypeOK, CommitRecovery, At, Release, Idle, Hand,
        FailedIsClean, OneStarter, Starting, Holds
  <2>5. LostIsBeingMade'
    BY <1>8, <2>0 DEF IInv, CredentialsTypeOK, CommitRecovery, At, Release, Idle, Hand,
        LostIsBeingMade, BeingMade, Holds
  <2>6. LocalIsBeingMade'
    BY <1>8, <2>0 DEF IInv, CredentialsTypeOK, CommitRecovery, At, Release, Idle, Hand,
        LocalIsBeingMade, BeingMade, Holds
  <2>7. ClosedIsBeingKept'
    <3> SUFFICES ASSUME NEW x \in Execution, Silent(x)', Closed(x)' PROVE BeingKept(x)'
      BY DEF ClosedIsBeingKept
    <3>1. \A v \in Worker \ {w} : workers'[v] = workers[v]
      BY <1>8 DEF CommitRecovery, Release, IInv, CredentialsTypeOK
    <3>2. \E v \in Worker : Holds(v, x, {"job", "record", "close", "clean"})
      <4>1. CASE Closed(x)
        BY <2>0, <4>1 DEF IInv, ClosedIsBeingKept, BeingKept
      <4>2. CASE ~Closed(x)
        <5>1. x = Hand(w) /\ At(w, "lost")
          BY <1>8, <4>2 DEF CommitRecovery, At, Closed, IInv, CredentialsTypeOK, Hand
        <5>2. rows[x] = "pending"
          BY <2>0, <4>2, <5>1 DEF IInv, CredentialsTypeOK, Status, Closed,
              FreshIsUntouched
        <5> QED BY <2>0, <5>1, <5>2 DEF IInv, LostIsBeingMade, BeingMade, Holds, At
      <4> QED BY <4>1, <4>2
    <3> QED BY <1>8, <3>1, <3>2 DEF BeingKept, Holds, Hand, CommitRecovery
  <2> QED BY <2>1, <2>2, <2>3, <2>4, <2>5, <2>6, <2>7 DEF IInv
<1>9. ASSUME NEW w \in Worker, Close(w) PROVE IInv'
  <2>1. CredentialsTypeOK'
    BY <1>9 DEF IInv, CredentialsTypeOK, Close, At, GoTo, Hand, Status, Job, Step,
        Reason, Idle
  <2>2. FreshIsUntouched'
    BY <1>9 DEF IInv, CredentialsTypeOK, Close, At, GoTo, Hand, FreshIsUntouched
  <2>3. OneStarter'
    BY <1>9 DEF IInv, CredentialsTypeOK, Close, At, GoTo, Hand, OneStarter,
        FreshIsUntouched, Starting, Holds
  <2>4. FailedIsClean'
    BY <1>9 DEF IInv, CredentialsTypeOK, Close, At, GoTo, Hand, FailedIsClean,
        OneStarter, Starting, Holds, Silent
  <2>5. LostIsBeingMade'
    BY <1>9 DEF IInv, CredentialsTypeOK, Close, At, GoTo, Hand, LostIsBeingMade,
        BeingMade, Holds, Silent
  <2>6. LocalIsBeingMade'
    BY <1>9 DEF IInv, CredentialsTypeOK, Close, At, GoTo, Hand, LocalIsBeingMade,
        BeingMade, Holds, Silent
  <2>7. ClosedIsBeingKept'
    BY <1>9 DEF IInv, CredentialsTypeOK, Close, At, GoTo, Hand, ClosedIsBeingKept,
        BeingKept, Holds, Closed, Silent
  <2> QED BY <2>1, <2>2, <2>3, <2>4, <2>5, <2>6, <2>7 DEF IInv
<1>10. ASSUME NEW w \in Worker, CleanUp(w) PROVE IInv'
  <2> PICK h \in Execution : h = Hand(w)
    BY <1>10 DEF IInv, CredentialsTypeOK, CleanUp, At, Hand
  <2>0. ~Silent(h)' /\ \A x \in Execution \ {h} : Silent(x)' => Silent(x)
    BY <1>10, DeleteSilences DEF CleanUp, IInv, Reason
  <2>1. CredentialsTypeOK'
    BY <1>10 DEF IInv, CredentialsTypeOK, CleanUp, At, Release, Idle, DeleteBoth,
        Excuse, Fault, Hand, Status, Job, Step, Reason
  <2>2. FreshIsUntouched'
    BY <1>10 DEF IInv, CredentialsTypeOK, CleanUp, At, Release, Idle, DeleteBoth,
        Excuse, Fault, Hand, FreshIsUntouched
  <2>3. OneStarter'
    BY <1>10 DEF IInv, CredentialsTypeOK, CleanUp, At, Release, Idle, DeleteBoth,
        Excuse, Fault, Hand, OneStarter, FreshIsUntouched, Starting, Holds
  <2>4. FailedIsClean'
    BY <1>10, <2>0 DEF IInv, CredentialsTypeOK, CleanUp, At, Release, Idle, Hand,
        FailedIsClean, OneStarter, Starting, Holds
  <2>5. LostIsBeingMade'
    BY <1>10, <2>0 DEF IInv, CredentialsTypeOK, CleanUp, At, Release, Idle, Hand,
        LostIsBeingMade, BeingMade, Holds
  <2>6. LocalIsBeingMade'
    BY <1>10, <2>0 DEF IInv, CredentialsTypeOK, CleanUp, At, Release, Idle, Hand,
        LocalIsBeingMade, BeingMade, Holds
  <2>7. ClosedIsBeingKept'
    BY <1>10, <2>0 DEF IInv, CredentialsTypeOK, CleanUp, At, Release, Idle, Hand,
        ClosedIsBeingKept, BeingKept, Holds, Closed
  <2> QED BY <2>1, <2>2, <2>3, <2>4, <2>5, <2>6, <2>7 DEF IInv
<1>11. ASSUME NEW w \in Worker, Crash(w) PROVE IInv'
  <2> PICK h \in Execution : h = Hand(w)
    BY <1>11 DEF IInv, CredentialsTypeOK, Crash, At, Hand
  <2>0. \A x \in Execution : Silent(x)' =>
            /\ Silent(x)
            /\ h = x => /\ ~Closed(x)
                        /\ \A v \in Worker \ {w} : Hand(v) # x
                        /\ x \in Local => workers[w].step \notin {"job", "record"}
    <3>1. UNCHANGED credentials
      BY <1>11 DEF Crash
    <3>2. CASE Excuse(h, "crash")
      BY <3>1, <3>2, ExcuseSilences DEF Reason, IInv
    <3>3. CASE UNCHANGED why /\ ~Excuse(h, "crash")
      BY <1>11, <3>1, <3>3 DEF Crash, Silent
    <3> QED BY <1>11, <3>2, <3>3 DEF Crash
  <2>1. CredentialsTypeOK'
    BY <1>11 DEF IInv, CredentialsTypeOK, Crash, At, Release, Idle, Excuse, Fault,
        Hand, Closed, Status, Job, Step, Reason
  <2>2. FreshIsUntouched'
    BY <1>11 DEF IInv, CredentialsTypeOK, Crash, At, Release, Idle, Excuse, Fault,
        Hand, Closed, FreshIsUntouched
  <2>3. OneStarter'
    BY <1>11 DEF IInv, CredentialsTypeOK, Crash, At, Release, Idle, Excuse, Fault,
        Hand, Closed, OneStarter, FreshIsUntouched, Starting, Holds
  <2>4. FailedIsClean'
    BY <1>11, <2>0 DEF IInv, CredentialsTypeOK, Crash, At, Release, Idle, Hand,
        Closed, FailedIsClean, OneStarter, Starting, Holds
  <2>5. LostIsBeingMade'
    BY <1>11, <2>0 DEF IInv, CredentialsTypeOK, Crash, At, Release, Idle, Hand,
        Closed, LostIsBeingMade, BeingMade, Holds
  <2>6. LocalIsBeingMade'
    BY <1>11, <2>0 DEF IInv, CredentialsTypeOK, Crash, At, Release, Idle, Hand,
        Closed, LocalIsBeingMade, BeingMade, Holds
  <2>7. ClosedIsBeingKept'
    BY <1>11, <2>0 DEF IInv, CredentialsTypeOK, Crash, At, Release, Idle, Hand,
        Closed, ClosedIsBeingKept, BeingKept, Holds
  <2> QED BY <2>1, <2>2, <2>3, <2>4, <2>5, <2>6, <2>7 DEF IInv
<1>12. ASSUME NEW w \in Worker, NEW e \in Execution, Dispatch(w, e) PROVE IInv'
  <2>1. CredentialsTypeOK'
    BY <1>12 DEF IInv, CredentialsTypeOK, Dispatch, Take, HasLock, At, Status, Job, Step,
        Reason, Idle, Hand
  <2>2. FreshIsUntouched'
    BY <1>12 DEF IInv, CredentialsTypeOK, Dispatch, Take, HasLock, At, FreshIsUntouched, Hand
  <2>3. OneStarter'
    BY <1>12 DEF IInv, CredentialsTypeOK, Dispatch, Take, HasLock, At, OneStarter,
        FreshIsUntouched, Starting, Holds, Hand
  <2>4. FailedIsClean'
    BY <1>12 DEF IInv, CredentialsTypeOK, Dispatch, Take, HasLock, At, FailedIsClean,
        OneStarter, Starting, Holds, Hand, Silent, FreshIsUntouched
  <2>5. LostIsBeingMade'
    BY <1>12 DEF IInv, CredentialsTypeOK, Dispatch, Take, HasLock, At, LostIsBeingMade,
        BeingMade, Holds, Hand, Silent, FreshIsUntouched
  <2>6. LocalIsBeingMade'
    BY <1>12 DEF IInv, CredentialsTypeOK, Dispatch, Take, HasLock, At, LocalIsBeingMade,
        BeingMade, Holds, Hand, Silent, FreshIsUntouched
  <2>7. ClosedIsBeingKept'
    BY <1>12 DEF IInv, CredentialsTypeOK, Dispatch, Take, HasLock, At, ClosedIsBeingKept,
        BeingKept, Holds, Hand, Closed, Silent
  <2> QED BY <2>1, <2>2, <2>3, <2>4, <2>5, <2>6, <2>7 DEF IInv
<1>13. ASSUME NEW w \in Worker, NEW e \in Execution, RecoverTooLate(w, e) PROVE IInv'
  <2>1. CredentialsTypeOK'
    BY <1>13 DEF IInv, CredentialsTypeOK, RecoverTooLate, HasLock, At, Excuse, Status, Job,
        Step, Reason, Idle, Hand
  <2>2. FreshIsUntouched'
    BY <1>13 DEF IInv, CredentialsTypeOK, RecoverTooLate, HasLock, At, Excuse,
        FreshIsUntouched, Hand
  <2>3. OneStarter'
    BY <1>13 DEF IInv, CredentialsTypeOK, RecoverTooLate, HasLock, At, Excuse, OneStarter,
        FreshIsUntouched, Starting, Holds, Hand
  <2>4. FailedIsClean'
    BY <1>13 DEF IInv, CredentialsTypeOK, RecoverTooLate, HasLock, At, Excuse, FailedIsClean,
        OneStarter, Starting, Holds, Hand, Silent
  <2>5. LostIsBeingMade'
    BY <1>13 DEF IInv, CredentialsTypeOK, RecoverTooLate, HasLock, At, Excuse,
        LostIsBeingMade, BeingMade, Holds, Hand, Silent
  <2>6. LocalIsBeingMade'
    BY <1>13 DEF IInv, CredentialsTypeOK, RecoverTooLate, HasLock, At, Excuse,
        LocalIsBeingMade, BeingMade, Holds, Hand, Silent
  <2>7. ClosedIsBeingKept'
    BY <1>13 DEF IInv, CredentialsTypeOK, RecoverTooLate, HasLock, At, Excuse,
        ClosedIsBeingKept, BeingKept, Holds, Hand, Closed, Silent
  <2> QED BY <2>1, <2>2, <2>3, <2>4, <2>5, <2>6, <2>7 DEF IInv
<1>14. ASSUME NEW w \in Worker, NEW e \in Execution, Recover(w, e) PROVE IInv'
  <2>1. CredentialsTypeOK'
    BY <1>14 DEF IInv, CredentialsTypeOK, Recover, Take, HasLock, At, Status, Job, Step,
        Reason, Idle, Hand
  <2>2. FreshIsUntouched'
    BY <1>14 DEF IInv, CredentialsTypeOK, Recover, Take, HasLock, At, FreshIsUntouched, Hand
  <2>3. OneStarter'
    BY <1>14 DEF IInv, CredentialsTypeOK, Recover, Take, HasLock, At, OneStarter,
        FreshIsUntouched, Starting, Holds, Hand
  <2>4. FailedIsClean'
    BY <1>14 DEF IInv, CredentialsTypeOK, Recover, Take, HasLock, At, FailedIsClean,
        OneStarter, Starting, Holds, Hand, Silent
  <2>5. LostIsBeingMade'
    BY <1>14 DEF IInv, CredentialsTypeOK, Recover, Take, HasLock, At, LostIsBeingMade,
        BeingMade, Holds, Hand, Silent
  <2>6. LocalIsBeingMade'
    BY <1>14 DEF IInv, CredentialsTypeOK, Recover, Take, HasLock, At, LocalIsBeingMade,
        BeingMade, Holds, Hand, Silent
  <2>7. ClosedIsBeingKept'
    BY <1>14 DEF IInv, CredentialsTypeOK, Recover, Take, HasLock, At, ClosedIsBeingKept,
        BeingKept, Holds, Hand, Closed, Silent
  <2> QED BY <2>1, <2>2, <2>3, <2>4, <2>5, <2>6, <2>7 DEF IInv
<1>15. ASSUME NEW w \in Worker, NEW e \in Execution, Poll(w, e) PROVE IInv'
  <2>1. CredentialsTypeOK'
    BY <1>15 DEF IInv, CredentialsTypeOK, Poll, Take, HasLock, At, Status, Job, Step, Reason,
        Idle, Hand
  <2>2. FreshIsUntouched'
    BY <1>15 DEF IInv, CredentialsTypeOK, Poll, Take, HasLock, At, FreshIsUntouched, Hand
  <2>3. OneStarter'
    BY <1>15 DEF IInv, CredentialsTypeOK, Poll, Take, HasLock, At, OneStarter,
        FreshIsUntouched, Starting, Holds, Hand
  <2>4. FailedIsClean'
    BY <1>15 DEF IInv, CredentialsTypeOK, Poll, Take, HasLock, At, FailedIsClean, OneStarter,
        Starting, Holds, Hand, Silent
  <2>5. LostIsBeingMade'
    BY <1>15 DEF IInv, CredentialsTypeOK, Poll, Take, HasLock, At, LostIsBeingMade,
        BeingMade, Holds, Hand, Silent
  <2>6. LocalIsBeingMade'
    BY <1>15 DEF IInv, CredentialsTypeOK, Poll, Take, HasLock, At, LocalIsBeingMade,
        BeingMade, Holds, Hand, Silent
  <2>7. ClosedIsBeingKept'
    BY <1>15 DEF IInv, CredentialsTypeOK, Poll, Take, HasLock, At, ClosedIsBeingKept,
        BeingKept, Holds, Hand, Closed, Silent
  <2> QED BY <2>1, <2>2, <2>3, <2>4, <2>5, <2>6, <2>7 DEF IInv
<1>16. ASSUME NEW e \in Execution, PodStarts(e) PROVE IInv'
  <2>1. CredentialsTypeOK'
    BY <1>16 DEF IInv, CredentialsTypeOK, PodStarts, Status, Job, Step, Reason,
        Idle, Hand
  <2>2. FreshIsUntouched'
    BY <1>16 DEF IInv, CredentialsTypeOK, PodStarts, FreshIsUntouched, Hand
  <2>3. OneStarter'
    BY <1>16 DEF IInv, CredentialsTypeOK, PodStarts, OneStarter, FreshIsUntouched,
        Starting, Holds, Hand
  <2>4. FailedIsClean'
    BY <1>16 DEF IInv, CredentialsTypeOK, PodStarts, FailedIsClean, OneStarter,
        Starting, Holds, Hand, Silent
  <2>5. LostIsBeingMade'
    BY <1>16 DEF IInv, CredentialsTypeOK, PodStarts, LostIsBeingMade, BeingMade,
        Holds, Hand, Silent
  <2>6. LocalIsBeingMade'
    BY <1>16 DEF IInv, CredentialsTypeOK, PodStarts, LocalIsBeingMade, BeingMade,
        Holds, Hand, Silent
  <2>7. ClosedIsBeingKept'
    BY <1>16 DEF IInv, CredentialsTypeOK, PodStarts, ClosedIsBeingKept, BeingKept,
        Holds, Hand, Closed, Silent
  <2> QED BY <2>1, <2>2, <2>3, <2>4, <2>5, <2>6, <2>7 DEF IInv
<1>17. ASSUME NEW e \in Execution, Upload(e) PROVE IInv'
  <2>1. CredentialsTypeOK'
    BY <1>17 DEF IInv, CredentialsTypeOK, Upload, Status, Job, Step, Reason, Idle,
        Hand
  <2>2. FreshIsUntouched'
    BY <1>17 DEF IInv, CredentialsTypeOK, Upload, FreshIsUntouched, Hand
  <2>3. OneStarter'
    BY <1>17 DEF IInv, CredentialsTypeOK, Upload, OneStarter, FreshIsUntouched,
        Starting, Holds, Hand
  <2>4. FailedIsClean'
    BY <1>17 DEF IInv, CredentialsTypeOK, Upload, FailedIsClean, OneStarter,
        Starting, Holds, Hand, Silent
  <2>5. LostIsBeingMade'
    BY <1>17 DEF IInv, CredentialsTypeOK, Upload, LostIsBeingMade, BeingMade, Holds,
        Hand, Silent
  <2>6. LocalIsBeingMade'
    BY <1>17 DEF IInv, CredentialsTypeOK, Upload, LocalIsBeingMade, BeingMade,
        Holds, Hand, Silent
  <2>7. ClosedIsBeingKept'
    BY <1>17 DEF IInv, CredentialsTypeOK, Upload, ClosedIsBeingKept, BeingKept,
        Holds, Hand, Closed, Silent
  <2> QED BY <2>1, <2>2, <2>3, <2>4, <2>5, <2>6, <2>7 DEF IInv
<1>18. ASSUME NEW e \in Execution, RunnerExits(e) PROVE IInv'
  <2>1. CredentialsTypeOK'
    BY <1>18 DEF IInv, CredentialsTypeOK, RunnerExits, Status, Job, Step, Reason,
        Idle, Hand
  <2>2. FreshIsUntouched'
    BY <1>18 DEF IInv, CredentialsTypeOK, RunnerExits, FreshIsUntouched, Hand
  <2>3. OneStarter'
    BY <1>18 DEF IInv, CredentialsTypeOK, RunnerExits, OneStarter, FreshIsUntouched,
        Starting, Holds, Hand
  <2>4. FailedIsClean'
    BY <1>18 DEF IInv, CredentialsTypeOK, RunnerExits, FailedIsClean, OneStarter,
        Starting, Holds, Hand, Silent
  <2>5. LostIsBeingMade'
    BY <1>18 DEF IInv, CredentialsTypeOK, RunnerExits, LostIsBeingMade, BeingMade,
        Holds, Hand, Silent
  <2>6. LocalIsBeingMade'
    BY <1>18 DEF IInv, CredentialsTypeOK, RunnerExits, LocalIsBeingMade, BeingMade,
        Holds, Hand, Silent
  <2>7. ClosedIsBeingKept'
    BY <1>18 DEF IInv, CredentialsTypeOK, RunnerExits, ClosedIsBeingKept, BeingKept,
        Holds, Hand, Closed, Silent
  <2> QED BY <2>1, <2>2, <2>3, <2>4, <2>5, <2>6, <2>7 DEF IInv
<1>19. ASSUME NEW e \in Execution, JobExpires(e) PROVE IInv'
  <2>1. CredentialsTypeOK'
    BY <1>19 DEF IInv, CredentialsTypeOK, JobExpires, Status, Job, Step, Reason,
        Idle, Hand
  <2>2. FreshIsUntouched'
    BY <1>19 DEF IInv, CredentialsTypeOK, JobExpires, FreshIsUntouched, Hand
  <2>3. OneStarter'
    BY <1>19 DEF IInv, CredentialsTypeOK, JobExpires, OneStarter, FreshIsUntouched,
        Starting, Holds, Hand
  <2>4. FailedIsClean'
    BY <1>19 DEF IInv, CredentialsTypeOK, JobExpires, FailedIsClean, OneStarter,
        Starting, Holds, Hand, Silent
  <2>5. LostIsBeingMade'
    BY <1>19 DEF IInv, CredentialsTypeOK, JobExpires, LostIsBeingMade, BeingMade,
        Holds, Hand, Silent
  <2>6. LocalIsBeingMade'
    BY <1>19 DEF IInv, CredentialsTypeOK, JobExpires, LocalIsBeingMade, BeingMade,
        Holds, Hand, Silent
  <2>7. ClosedIsBeingKept'
    BY <1>19 DEF IInv, CredentialsTypeOK, JobExpires, ClosedIsBeingKept, BeingKept,
        Holds, Hand, Closed, Silent
  <2> QED BY <2>1, <2>2, <2>3, <2>4, <2>5, <2>6, <2>7 DEF IInv
<1>20. CASE UNCHANGED vars
  BY <1>20 DEF IInv, vars, CredentialsTypeOK, FreshIsUntouched, OneStarter, FailedIsClean,
        LostIsBeingMade, LocalIsBeingMade, ClosedIsBeingKept, BeingMade, BeingKept, Holds,
        Silent, Hand, Closed
<1> QED
  BY <1>1, <1>2, <1>3, <1>4, <1>5, <1>6, <1>7, <1>8, <1>9, <1>10, <1>11,
        <1>12, <1>13, <1>14, <1>15, <1>16, <1>17, <1>18, <1>19, <1>20 DEF Next, Proceed, Turn

LEMMA IInvHolds == Spec => []IInv
BY IInvInit, IInvStep, PTL DEF Spec

\* Every variable keeps its type, and a worker has an execution in hand exactly
\* when it is not idle (worker.py 178-330).
THEOREM CredentialsTypeCorrect == Spec => []CredentialsTypeOK
<1>1. IInv => CredentialsTypeOK
  BY DEF IInv
<1> QED BY <1>1, IInvHolds, PTL

\* A closed execution nobody has in hand has left its credential behind only for
\* one of the four reasons (executors/kubernetes.py 107-119, 140-146,
\* executors/local.py 28-37, worker.py 198-216, 245-271, 322-328).
THEOREM LeftoversHaveReasons == Spec => []LeftoversAreExcused
<1>1. IInv => LeftoversAreExcused
  BY DEF IInv, ClosedIsBeingKept, BeingKept, LeftoversAreExcused, InHand, Silent, Holds
<1> QED BY <1>1, IInvHolds, PTL
=============================================================================
