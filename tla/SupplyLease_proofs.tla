------------------------- MODULE SupplyLease_proofs -------------------------
(***************************************************************************)
(* What holds of the paired GPIO daemon for every lease length, every      *)
(* timeout and every request.  The argument is one inductive invariant,    *)
(* IInv: the types, the agreement of the lease's fields with each other    *)
(* and with the pins, and, for each place the thread can be at, how far a  *)
(* held lease may have run past its end by then.                           *)
(***************************************************************************)
EXTENDS SupplyLease, TLAPS

(* No call blocks beyond its timeout, and between the calls no time passes. *)
BlockedInv ==
    /\ proc = "accept"  => blocked <= AcceptTimeout
    /\ proc = "recv"    => blocked <= SocketTimeout
    /\ proc = "execute" => blocked <= ExecuteDelay
    /\ proc \in {"enforce", "grant"} => blocked = 0

(* How late the expiry of a held lease can be noticed, by place. *)
OnTime ==
    /\ Running
    /\ proc = "enforce" => lease.left > 0 - Overrun - 1
    /\ proc = "accept"  => lease.left + blocked > 0
    /\ proc = "recv"    => lease.left + blocked > 0 - AcceptTimeout
    /\ proc = "execute" => lease.left + blocked > 0
    /\ proc = "grant"   => lease.left > 0

LeaseInv ==
    /\ ~lease.held => lease.left = 0
    /\ lease.held => OnTime

IInv == TypeOK /\ BlockedInv /\ LeaseInv /\ LeaseMatchesPins /\ LowIsAccountedFor

-----------------------------------------------------------------------------
(* The two commanded levels are levels, and are different. *)
LEMMA LevelFacts == High \in Levels /\ Low \in Levels /\ High # Low
<1>1. High \in Levels /\ Low \in Levels
  BY DEF High, Low, Levels, Pins
<1>2. High[26] = 1 /\ Low[26] = 0
  BY DEF High, Low, Pins
<1>. QED  BY <1>1, <1>2

(* What the lease is after a DRAIN, a granted SUPPLY, a lost process. *)
LEMMA DrainedFacts ==
    ASSUME NEW read \in Levels
    PROVE  /\ Drained(read) \in Leases
           /\ ~Drained(read).held /\ Drained(read).left = 0
           /\ Drained(read).level = read
           /\ Drained(read).verified <=> read = High
           /\ Drained(read).pending <=> read # High
<1>1. (read = High) \in BOOLEAN /\ (read # High) \in BOOLEAN
  OBVIOUS
<1>2. Drained(read) \in Leases
  BY <1>1 DEF Drained, Leases
<1>3. /\ ~Drained(read).held /\ Drained(read).left = 0
      /\ Drained(read).level = read
  BY DEF Drained
<1>4. CASE read = High
  BY <1>2, <1>3, <1>4 DEF Drained
<1>5. CASE read # High
  BY <1>2, <1>3, <1>5 DEF Drained
<1>. QED  BY <1>4, <1>5

LEMMA SuppliedFacts ==
    /\ Supplied \in Leases
    /\ Supplied.held /\ Supplied.left = Lease /\ Supplied.level = Low
    /\ ~Supplied.verified /\ ~Supplied.pending
BY LevelFacts, TimingAssumption DEF Supplied, Leases

LEMMA UnleasedFacts ==
    ASSUME NEW level \in Levels
    PROVE  /\ Unleased(level) \in Leases
           /\ ~Unleased(level).held /\ Unleased(level).left = 0
           /\ ~Unleased(level).verified /\ ~Unleased(level).pending
           /\ Unleased(level).level = level
BY DEF Unleased, Leases

(* enforce leaves a lease that is not due as it was; otherwise it drains. *)
LEMMA EnforcedFacts ==
    ASSUME NEW read \in Levels, lease \in Leases
    PROVE  \/ /\ Enforced(read) = lease
              /\ ~lease.pending /\ (lease.held => lease.left > 0)
           \/ Enforced(read) = Drained(read)
BY DEF Enforced, Due, Overdue, Leases

-----------------------------------------------------------------------------
LEMMA InitInv == Init => IInv
<1>. SUFFICES ASSUME Init PROVE IInv
  OBVIOUS
<1>1. lease \in Leases /\ ~lease.held /\ lease.left = 0 /\ ~lease.verified
  BY UnleasedFacts DEF Init
<1>2. receipt \in Replies
  BY DEF Init, Failed, Replies, Actions, Commands
<1>. QED  BY <1>1, <1>2 DEF Init, IInv, TypeOK, BlockedInv, LeaseInv, LeaseMatchesPins,
            LowIsAccountedFor, Running, Actions

LEMMA NextInv == IInv /\ [Next]_vars => IInv'
<1>. SUFFICES ASSUME IInv, [Next]_vars PROVE IInv'
  OBVIOUS
<1>. USE LevelFacts, TimingAssumption
<1>t. lease \in Leases /\ Failed("none") \in Replies /\ Failed("DRAIN") \in Replies
      /\ Failed("SUPPLY") \in Replies
  BY DEF IInv, TypeOK, Failed, Replies, Actions, Commands
<1>1. ASSUME NEW first \in Levels, NEW second \in Levels, NEW emergency \in Levels,
             Start(first, second, emergency)
      PROVE  IInv'
  <2>1. CASE first = High /\ second = High
    <3>1. lease' = Drained(High) /\ proc' = "enforce"
      BY <1>1, <2>1 DEF Start
    <3>2. Drained(High).verified /\ ~Drained(High).pending
      BY DrainedFacts
    <3>. QED  BY <3>1, <3>2, <1>1, <1>t, <2>1, DrainedFacts
    DEF Start, IInv, TypeOK, BlockedInv, LeaseInv, LeaseMatchesPins,
        LowIsAccountedFor, Actions
  <2>2. CASE ~(first = High /\ second = High)
    BY <1>1, <1>t, <2>2, UnleasedFacts
    DEF Start, IInv, TypeOK, BlockedInv, LeaseInv, LeaseMatchesPins,
        LowIsAccountedFor, Running, Actions
  <2>. QED  BY <2>1, <2>2
<1>2. CASE Terminate
  BY <1>2 DEF Terminate, IInv, TypeOK, BlockedInv, LeaseInv, OnTime,
              LeaseMatchesPins, LowIsAccountedFor, Running
<1>3. ASSUME NEW read \in Levels, Exit(read) PROVE IInv'
  BY <1>3, <1>t, UnleasedFacts
  DEF Exit, IInv, TypeOK, BlockedInv, LeaseInv, LeaseMatchesPins,
      LowIsAccountedFor, Running
<1>4. ASSUME NEW level \in Levels, Crash(level) PROVE IInv'
  BY <1>4, <1>t, UnleasedFacts
  DEF Crash, IInv, TypeOK, BlockedInv, LeaseInv, LeaseMatchesPins,
      LowIsAccountedFor, Running, Actions
<1>5. ASSUME NEW read \in Levels, Enforce(read) PROVE IInv'
  <2>1. /\ proc = "enforce" /\ proc' = "accept" /\ blocked = 0 /\ blocked' = 0
        /\ stop' = stop /\ action' = action /\ receipt' = receipt
        /\ lease' = Enforced(read)
    BY <1>5 DEF Enforce, IInv, BlockedInv
  <2>2. BlockedInv'
    BY <2>1 DEF BlockedInv
  <2>3. CASE Enforced(read) = Drained(read)
    BY <2>1, <2>2, <2>3, DrainedFacts
    DEF IInv, TypeOK, LeaseInv, LeaseMatchesPins, LowIsAccountedFor
  <2>4. CASE lease' = lease /\ (lease.held => lease.left > 0)
    BY <2>1, <2>2, <2>4, <1>t
    DEF IInv, TypeOK, LeaseInv, OnTime, LeaseMatchesPins, LowIsAccountedFor,
        Running, Leases
  <2>. QED  BY <2>1, <2>3, <2>4, <1>t, EnforcedFacts
<1>6. CASE AcceptTimesOut
  BY <1>6, <1>t DEF AcceptTimesOut, IInv, TypeOK, BlockedInv, LeaseInv, OnTime,
              LeaseMatchesPins, LowIsAccountedFor, Running, Overrun, Leases
<1>7. CASE Accept
  BY <1>7, <1>t DEF Accept, IInv, TypeOK, BlockedInv, LeaseInv, OnTime,
              LeaseMatchesPins, LowIsAccountedFor, Running, Leases
<1>8. CASE RecvFails
  BY <1>8, <1>t DEF RecvFails, IInv, TypeOK, BlockedInv, LeaseInv, OnTime,
              LeaseMatchesPins, LowIsAccountedFor, Running, Overrun, Leases
<1>9. ASSUME NEW r \in Requests, NEW read \in Levels, RecvDrain(r, read)
      PROVE  IInv'
  <2>1. CASE r.finite /\ r.action = "none"
    <3>1. receipt' \in Replies
      BY <1>9, <2>1 DEF RecvDrain, Replies, Failed, Commands, Actions
    <3>. QED  BY <1>9, <2>1, <3>1, DrainedFacts
      DEF RecvDrain, IInv, TypeOK, BlockedInv, LeaseInv, LeaseMatchesPins,
          LowIsAccountedFor, Running
  <2>2. CASE ~(r.finite /\ r.action = "none")
    BY <1>9, <1>t, <2>2
    DEF RecvDrain, IInv, TypeOK, BlockedInv, LeaseInv, OnTime, LeaseMatchesPins,
        LowIsAccountedFor, Running, Overrun, Leases
  <2>. QED  BY <2>1, <2>2
<1>10. ASSUME NEW r \in Requests, NEW read \in Levels, RecvSupply(r, read)
       PROVE  IInv'
  <2>1. /\ proc' \in {"execute", "enforce"} /\ blocked' = 0 /\ stop' = stop
        /\ action' \in Actions /\ receipt' \in Replies /\ lease' = Enforced(read)
        /\ proc = "recv"
    BY <1>10, <1>t DEF RecvSupply, IInv, TypeOK, Requests
  <2>. QED  BY <2>1, <1>t, EnforcedFacts, DrainedFacts
    DEF IInv, TypeOK, BlockedInv, LeaseInv, OnTime, LeaseMatchesPins,
        LowIsAccountedFor, Running, Overrun, Leases
<1>11. ASSUME NEW read \in Levels, ExecuteEnforce(read) PROVE IInv'
  <2>1. /\ proc' \in {"grant", "enforce"} /\ blocked' = 0 /\ stop' = stop
        /\ action' \in Actions /\ receipt' \in Replies /\ lease' = Enforced(read)
        /\ proc = "execute"
    BY <1>11, <1>t DEF ExecuteEnforce, IInv, TypeOK, Actions
  <2>. QED  BY <2>1, <1>t, EnforcedFacts, DrainedFacts
    DEF IInv, TypeOK, BlockedInv, LeaseInv, OnTime, LeaseMatchesPins,
        LowIsAccountedFor, Running, Overrun, Leases
<1>12. CASE Refuse
  BY <1>12, <1>t DEF Refuse, IInv, TypeOK, BlockedInv, LeaseInv, OnTime,
              LeaseMatchesPins, LowIsAccountedFor, Running, Overrun, Leases, Actions
<1>13. CASE Grant
  <2>1. receipt' \in Replies
    BY <1>13 DEF Grant, IInv, TypeOK, Replies, Commands
  <2>. QED  BY <1>13, <2>1, SuppliedFacts
    DEF Grant, IInv, TypeOK, BlockedInv, LeaseInv, OnTime, LeaseMatchesPins,
        LowIsAccountedFor, Running, Overrun, Actions
<1>14. ASSUME NEW read \in Levels, GrantFails(read) PROVE IInv'
  BY <1>14, <1>t, DrainedFacts
  DEF GrantFails, IInv, TypeOK, BlockedInv, LeaseInv, LeaseMatchesPins,
      LowIsAccountedFor, Running, Actions
<1>15. CASE Tick
  <2>1. lease' \in Leases
    BY <1>15, <1>t DEF Tick, Leases
  <2>2. /\ lease'.held = lease.held /\ lease'.level = lease.level
        /\ lease'.verified = lease.verified /\ lease'.pending = lease.pending
        /\ lease.held => lease'.left = lease.left - 1
        /\ ~lease.held => lease'.left = lease.left
    BY <1>15, <1>t DEF Tick, Leases
  <2>. QED  BY <1>15, <1>t, <2>1, <2>2
    DEF Tick, IInv, TypeOK, BlockedInv, LeaseInv, OnTime, LeaseMatchesPins,
        LowIsAccountedFor, Running, Leases
<1>16. CASE UNCHANGED vars
  BY <1>16 DEF vars, IInv, TypeOK, BlockedInv, LeaseInv, OnTime,
               LeaseMatchesPins, LowIsAccountedFor, Running
<1>. QED  BY <1>1, <1>2, <1>3, <1>4, <1>5, <1>6, <1>7, <1>8, <1>9, <1>10, <1>11,
            <1>12, <1>13, <1>14, <1>15, <1>16 DEF Next

LEMMA Invariance == Spec => []IInv
BY InitInv, NextInv, PTL DEF Spec

-----------------------------------------------------------------------------
(* Type correctness of the daemon: every variable of SupplyLease keeps its *)
(* type, whatever the requests, the readbacks and the kills.               *)
THEOREM TypeCorrectness == Spec => []TypeOK
<1>1. IInv => TypeOK
  BY DEF IInv
<1>. QED  BY Invariance, <1>1, PTL

(* A running daemon never forgets a pair that is not high: it is under a   *)
(* lease or a DRAIN is pending, through every failure of SupplyLease's     *)
(* writes, for every level the pins can be read at.                        *)
THEOREM NothingLowIsForgotten == Spec => []LowIsAccountedFor
<1>1. IInv => LowIsAccountedFor
  BY DEF IInv
<1>. QED  BY Invariance, <1>1, PTL

(* The three fields of SupplyLease agree with each other and with the pins. *)
THEOREM LeaseIsHonest == Spec => []LeaseMatchesPins
<1>1. IInv => LeaseMatchesPins
  BY DEF IInv
<1>. QED  BY Invariance, <1>1, PTL

(* However long the lease and the timeouts are, the loop of serve lets a   *)
(* lease run past its end by no more than one accept, one recv and one     *)
(* delayed execute.                                                        *)
THEOREM ExpiryIsBounded == Spec => []OverrunBounded
<1>1. IInv => OverrunBounded
  <2>. SUFFICES ASSUME IInv, lease.held PROVE lease.left > 0 - Overrun - 1
    BY DEF OverrunBounded
  <2>1. lease.left \in Int /\ blocked \in Nat
    BY DEF IInv, TypeOK, Leases
  <2>2. proc \in {"enforce", "accept", "recv", "execute", "grant"}
    BY DEF IInv, TypeOK, LeaseInv, OnTime, Running
  <2>. QED  BY <2>1, <2>2, TimingAssumption
         DEF IInv, LeaseInv, OnTime, BlockedInv, Overrun
<1>. QED  BY Invariance, <1>1, PTL

(* What a client of the daemon is told is so: see RepliesAreTrue. *)
THEOREM RepliesAreHonest == Spec => RepliesAreTrue
<1>1. IInv /\ [Next]_vars =>
        [Replied =>
           /\ receipt'.ok /\ receipt'.command = "DRAIN" => lease'.verified
           /\ receipt'.ok /\ receipt'.command = "SUPPLY" =>
                 lease' = Supplied /\ lease.left >= 0
           /\ ~receipt'.ok /\ lease'.held => lease' = lease]_vars
  <2>. SUFFICES ASSUME IInv, Next, Replied
       PROVE /\ receipt'.ok /\ receipt'.command = "DRAIN" => lease'.verified
             /\ receipt'.ok /\ receipt'.command = "SUPPLY" =>
                   lease' = Supplied /\ lease.left >= 0
             /\ ~receipt'.ok /\ lease'.held => lease' = lease
    OBVIOUS
  <2>t. lease \in Leases /\ proc \in {"recv", "execute", "grant"} /\ proc' = "enforce"
    BY DEF IInv, TypeOK, Replied
  <2>f. \A c \in {"none", "DRAIN", "SUPPLY"} : ~Failed(c).ok
    BY DEF Failed
  <2>1. CASE RecvFails
    BY <2>1, <2>f DEF RecvFails
  <2>2. ASSUME NEW r \in Requests, NEW read \in Levels, RecvDrain(r, read)
        PROVE  /\ receipt'.command = "DRAIN"
               /\ receipt'.ok => lease'.verified
               /\ ~receipt'.ok /\ lease'.held => lease' = lease
    <3>1. CASE r.finite /\ r.action = "none"
      <4>1. receipt' = [ok |-> (read = High), command |-> "DRAIN", action |-> "none"]
        BY <2>2, <3>1 DEF RecvDrain, Failed
      <4>. QED  BY <2>2, <3>1, <4>1, DrainedFacts DEF RecvDrain
    <3>2. CASE ~(r.finite /\ r.action = "none")
      BY <2>2, <3>2 DEF RecvDrain, Failed
    <3>. QED  BY <3>1, <3>2
  <2>3. ASSUME NEW r \in Requests, NEW read \in Levels, RecvSupply(r, read)
        PROVE  ~receipt'.ok /\ (lease'.held => lease' = lease)
    <3>1. receipt' = Failed("SUPPLY") /\ lease' = Enforced(read)
      BY <2>3, <2>t DEF RecvSupply
    <3>. QED  BY <3>1, <2>f, <2>t, EnforcedFacts, DrainedFacts
  <2>4. ASSUME NEW read \in Levels, ExecuteEnforce(read)
        PROVE  ~receipt'.ok /\ (lease'.held => lease' = lease)
    <3>1. receipt' = Failed("SUPPLY") /\ lease' = Enforced(read)
      BY <2>4, <2>t DEF ExecuteEnforce
    <3>. QED  BY <3>1, <2>f, <2>t, EnforcedFacts, DrainedFacts
  <2>5. CASE Refuse
    BY <2>5, <2>f DEF Refuse
  <2>6. CASE Grant
    <3>1. lease.left >= 0
      BY <2>6, <2>t DEF IInv, LeaseInv, OnTime, Leases, Grant
    <3>. QED  BY <2>6, <3>1 DEF Grant
  <2>7. ASSUME NEW read \in Levels, GrantFails(read)
        PROVE  ~receipt'.ok /\ ~lease'.held
    BY <2>7, <2>f, DrainedFacts DEF GrantFails
  <2>8. \/ RecvFails
        \/ \E r \in Requests, read \in Levels : RecvDrain(r, read)
        \/ \E r \in Requests, read \in Levels : RecvSupply(r, read)
        \/ \E read \in Levels : ExecuteEnforce(read)
        \/ Refuse \/ Grant
        \/ \E read \in Levels : GrantFails(read)
    BY <2>t DEF Next, Start, Terminate, Exit, Crash, Enforce, AcceptTimesOut,
                Accept, Tick
  <2>. QED  BY <2>1, <2>2, <2>3, <2>4, <2>5, <2>6, <2>7, <2>8
<1>. QED  BY Invariance, <1>1, PTL DEF Spec, RepliesAreTrue

-----------------------------------------------------------------------------
(* The valve as a client of LeasedValve sees it. *)
Seen(l)     == IF l.held THEN "supply" ELSE IF l.verified THEN "drain" ELSE "unconfirmed"
SeenLeft(l) == IF l.held THEN l.left ELSE 0

LEMMA SeenDrained ==
    ASSUME NEW read \in Levels
    PROVE  /\ Seen(Drained(read)) \in {"drain", "unconfirmed"}
           /\ SeenLeft(Drained(read)) = 0
BY DrainedFacts DEF Seen, SeenLeft

(* A step after which no lease is held closes the valve or loses sight of it. *)
LEMMA Released ==
    ASSUME Seen(lease') \in {"drain", "unconfirmed"}, SeenLeft(lease') = 0
    PROVE  Valve!Close \/ Valve!Lose
BY DEF Seen, SeenLeft, Valve!Close, Valve!Lose

LEMMA NextRefines == IInv /\ [Next]_vars => [Valve!ValveNext]_(Valve!valveVars)
<1>. SUFFICES ASSUME IInv, [Next]_vars PROVE [Valve!ValveNext]_(Valve!valveVars)
  OBVIOUS
<1>t. lease \in Leases
  BY DEF IInv, TypeOK
<1>a. ASSUME lease' = lease PROVE UNCHANGED Valve!valveVars
  BY <1>a DEF Valve!valveVars
<1>b. ASSUME NEW read \in Levels, lease' = Drained(read) PROVE Valve!ValveNext
  BY <1>b, SeenDrained, Released DEF Valve!ValveNext
<1>c. ASSUME NEW read \in Levels, lease' = Enforced(read)
      PROVE  [Valve!ValveNext]_(Valve!valveVars)
  <2>1. CASE lease' = lease
    BY <2>1, <1>a
  <2>2. CASE lease' = Drained(read)
    BY <2>2, <1>b
  <2>. QED  BY <1>c, <1>t, <2>1, <2>2, EnforcedFacts
<1>d. ASSUME NEW level \in Levels, lease' = Unleased(level) PROVE Valve!ValveNext
  <2>1. Seen(lease') = "unconfirmed" /\ SeenLeft(lease') = 0
    BY <1>d, UnleasedFacts DEF Seen, SeenLeft
  <2>. QED  BY <2>1, Released DEF Valve!ValveNext
<1>1. ASSUME NEW first \in Levels, NEW second \in Levels, NEW emergency \in Levels,
             Start(first, second, emergency)
      PROVE  Valve!ValveNext
  BY <1>1, <1>b, <1>d DEF Start
<1>2. ASSUME NEW level \in Levels, Exit(level) \/ Crash(level)
      PROVE  Valve!ValveNext
  BY <1>2, <1>d DEF Exit, Crash
<1>3. ASSUME NEW read \in Levels,
             \/ Enforce(read)
             \/ \E r \in Requests : RecvSupply(r, read)
             \/ ExecuteEnforce(read)
      PROVE  [Valve!ValveNext]_(Valve!valveVars)
  BY <1>3, <1>c DEF Enforce, RecvSupply, ExecuteEnforce
<1>4. ASSUME NEW r \in Requests, NEW read \in Levels, RecvDrain(r, read)
      PROVE  [Valve!ValveNext]_(Valve!valveVars)
  BY <1>4, <1>a, <1>b DEF RecvDrain
<1>5. ASSUME NEW read \in Levels, GrantFails(read) PROVE Valve!ValveNext
  BY <1>5, <1>b DEF GrantFails
<1>6. CASE Terminate \/ AcceptTimesOut \/ Accept \/ RecvFails \/ Refuse \/ UNCHANGED vars
  BY <1>6, <1>a DEF Terminate, AcceptTimesOut, Accept, RecvFails, Refuse, vars
<1>7. CASE Grant
  <2>1. lease'.held /\ lease'.left = Lease
    BY <1>7, SuppliedFacts DEF Grant
  <2>2. CASE ~lease.held /\ lease.verified
    BY <2>1, <2>2 DEF Valve!Begin, Valve!ValveNext
  <2>3. CASE lease.held /\ lease.left > 0
    BY <2>1, <2>3 DEF Valve!Renew, Valve!ValveNext
  <2>. QED  BY <1>7, <2>2, <2>3 DEF Grant, Allowed
<1>8. CASE Tick
  <2>1. CASE lease.held
    <3>1. lease'.held /\ lease'.left = lease.left - 1
      BY <1>8, <2>1, <1>t DEF Tick, Leases
    <3>2. lease.left > 0 - Overrun
      BY <1>8, <2>1, <1>t, TimingAssumption
      DEF Tick, IInv, TypeOK, BlockedInv, LeaseInv, OnTime, Overrun, Leases
    <3>. QED  BY <2>1, <3>1, <3>2 DEF Valve!Elapse, Valve!ValveNext
  <2>2. CASE ~lease.held
    BY <1>8, <2>2, <1>a DEF Tick
  <2>. QED  BY <2>1, <2>2
<1>. QED  BY <1>1, <1>2, <1>3, <1>4, <1>5, <1>6, <1>7, <1>8 DEF Next

(* The daemon implements LeasedValve: SUPPLY is opened only from a         *)
(* verified DRAIN, renewed only under a live lease, and a lease is gone at *)
(* most Overrun units after its end.                                       *)
THEOREM DaemonImplementsLeasedValve == Spec => ImplementsLeasedValve
<1>1. Init => Valve!ValveInit
  BY UnleasedFacts DEF Init, Valve!ValveInit
<1>. QED  BY <1>1, Invariance, NextRefines, PTL
          DEF Spec, ImplementsLeasedValve, Valve!ValveSpec
=============================================================================
