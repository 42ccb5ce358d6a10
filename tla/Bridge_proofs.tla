----------------------------- MODULE Bridge_proofs -----------------------------
(***************************************************************************)
(* Bridge for any number of requests and all timeouts under which a        *)
(* request left unread for MaxStall still has its deadline run out before  *)
(* the Hub gives up.                                                       *)
(***************************************************************************)
EXTENDS Bridge, SequenceTheorems, TLAPS

Prompt == MaxStall + Ttl <= HubTimeout

-----------------------------------------------------------------------------
(* The inductive invariant. *)

(* A SUPPLY that may still open the valve. *)
Armed(id) ==
    /\ req[id].command # "DRAIN"
    /\ \/ req[id].at = "inbox"
       \/ req[id].at = "started" /\ req[id].ttl > 0
       \/ Queued(id) /\ req[id].ttl > 0

Quiet == valve # "supply" /\ \A id \in Ids : ~Armed(id)

(* The daemon's socket holds a command once, and only after it was sent. *)
QueueInv ==
    /\ \A n \in DOMAIN backlog : req[backlog[n]].at \in {"waiting", "answered", "gone"}
    /\ \A m, n \in DOMAIN backlog : backlog[m] = backlog[n] => m = n

(* Where the request of the current call can be, and how old it is there.  *)
Current == req[hub.call]
CallInv ==
    hub.call # None =>
        /\ hub.belief = "unknown" /\ hub.waited <= HubTimeout
        /\ Current.at \in {"inbox", "started", "waiting", "answered"} /\ ~Current.startup
        /\ Current.at = "inbox" => hub.waited = Current.age /\ Current.age <= MaxStall
        /\ Current.at # "inbox" => Current.ttl = 0 \/ hub.waited + Current.ttl <= MaxStall + Ttl

(* What is left of earlier calls can do harm only from the daemon's socket. *)
OrphanInv == \A id \in Ids : Armed(id) /\ id # hub.call => Queued(id)

(* A DRAIN is behind all of them there, so that nothing is left to open    *)
(* the valve once it has been carried out.                                 *)
DrainInv ==
    hub.call # None /\ Current.command = "DRAIN" =>
        /\ \A m, n \in DOMAIN backlog, u \in Ids :
              backlog[n] = hub.call /\ backlog[m] = u /\ Armed(u) => m < n
        /\ Current.at = "answered" /\ Current.ok => Quiet

BeliefInv == hub.belief = "drained" => hub.call = None /\ Quiet

(* The lease is no older than the call that is to be told of it. *)
FreshInv ==
    hub.call # None /\ Current.command # "DRAIN" /\ Current.at = "answered" /\ Current.ok
    /\ valve = "supply" => left + hub.waited >= Lease

IInv ==
    /\ TypeOK /\ QueueInv /\ CallInv /\ OrphanInv /\ DrainInv /\ BeliefInv /\ FreshInv

-----------------------------------------------------------------------------
(* What the type invariant says of the parts. *)
LEMMA Types ==
    ASSUME TypeOK
    PROVE  /\ \A id \in Ids :
                 /\ req[id] \in Requests
                 /\ req[id].at \in Stages /\ req[id].command \in Commands
                 /\ req[id].startup \in BOOLEAN /\ req[id].ok \in BOOLEAN
                 /\ req[id].age \in Nat /\ req[id].ttl \in Nat /\ req[id].wait \in Nat
           /\ req \in [Ids -> Requests]
           /\ backlog \in Seq(Ids) /\ Len(backlog) \in Nat
           /\ DOMAIN backlog = 1..Len(backlog)
           /\ \A n \in DOMAIN backlog : backlog[n] \in Ids
           /\ hub.call \in Ids \cup {None} /\ hub.waited \in Nat
           /\ hub.belief \in {"unknown", "drained", "supplying"}
           /\ left \in Int
  BY LenProperties, ElementOfSeq DEF TypeOK, Requests

LEMMA FreeFacts ==
    /\ Free \in Requests /\ Free.at = "free" /\ Free.command = "DRAIN"
    /\ ~Free.startup /\ ~Free.ok /\ Free.ttl = 0 /\ Free.age = 0
  BY DEF Free, Requests, Stages, Commands

LEMMA ForgottenFacts ==
    ASSUME NEW r \in Requests, NEW queued \in BOOLEAN
    PROVE  /\ Forgotten(r, queued) \in Requests
           /\ queued => /\ Forgotten(r, queued).at = "gone"
                        /\ Forgotten(r, queued).command = r.command
                        /\ Forgotten(r, queued).ttl = r.ttl
           /\ ~queued => Forgotten(r, queued) = Free
<1>1. CASE queued
  BY <1>1 DEF Forgotten, Requests, Stages
<1>2. CASE ~queued
  BY <1>2, FreeFacts DEF Forgotten
<1> QED
  BY <1>1, <1>2

LEMMA ValveFacts ==
    /\ Close \/ Lose => valve' \in {"drain", "unconfirmed"} /\ left' = 0
    /\ Begin \/ Renew => valve' = "supply" /\ left' = Lease
  BY DEF Close, Lose, Begin, Renew

LEMMA InvInit == Init => IInv
<1> SUFFICES ASSUME Init PROVE IInv
  OBVIOUS
<1>1. /\ req = [id \in Ids |-> Free] /\ backlog = <<>> /\ hub = Told("unknown")
      /\ ready = "no" /\ valve = "unconfirmed" /\ left = 0
  BY DEF Init, ValveInit
<1>2. DOMAIN backlog = {}
  BY <1>1
<1>3. hub = [call |-> None, waited |-> 0, belief |-> "unknown"]
  BY <1>1 DEF Told
<1>4. TypeOK
  BY <1>1, <1>3, FreeFacts, EmptySeq DEF TypeOK
<1>5. \A id \in Ids : ~Armed(id)
  BY <1>1, FreeFacts DEF Armed
<1> QED
  BY <1>1, <1>2, <1>3, <1>4, <1>5
  DEF IInv, QueueInv, CallInv, OrphanInv, DrainInv, BeliefInv, FreshInv

(* Nobody holds a request that is free or not yet sent. *)
LEMMA NotQueued ==
    ASSUME IInv, NEW id \in Ids, req[id].at \in {"free", "inbox", "started"}
    PROVE  ~Queued(id)
  BY DEF IInv, QueueInv, Queued

-----------------------------------------------------------------------------
(* A step that changes one request and neither the socket nor the valve,   *)
(* and arms nothing, keeps what concerns the others.                       *)
LEMMA OneRequest ==
    ASSUME IInv, NEW id \in Ids, UNCHANGED <<backlog, valve, left>>,
           \A u \in Ids : u # id => req'[u] = req[u]
    PROVE  /\ \A u \in Ids : Queued(u)' <=> Queued(u)
           /\ \A u \in Ids : u # id => (Armed(u)' <=> Armed(u))
           /\ DOMAIN backlog' = DOMAIN backlog
  BY DEF Queued, Armed

LEMMA StepCall ==
    ASSUME IInv, NEW id \in Ids, NEW command \in Commands, Call(id, command)
    PROVE  IInv'
<1> USE BridgeAssumption DEF IInv
<1>1. /\ hub.call = None /\ req[id].at = "free"
      /\ UNCHANGED <<backlog, ready, valve, left>>
      /\ hub' = [call |-> id, waited |-> 0, belief |-> "unknown"]
      /\ \A u \in Ids : u # id => req'[u] = req[u]
      /\ req'[id] = [Free EXCEPT !.at = "inbox", !.command = command]
      /\ DOMAIN req' = Ids
  BY Types DEF Call
<1>2. /\ req'[id] \in Requests /\ req'[id].at = "inbox" /\ req'[id].command = command
      /\ req'[id].age = 0 /\ ~req'[id].startup
  BY <1>1, FreeFacts DEF Requests, Stages
<1>3. /\ \A u \in Ids : Queued(u)' <=> Queued(u)
      /\ \A u \in Ids : u # id => (Armed(u)' <=> Armed(u))
      /\ ~Queued(id)
  BY <1>1, OneRequest, NotQueued
<1>4. TypeOK'
  <2>1. req' \in [Ids -> Requests]
    BY <1>2, <1>1, Types DEF Call
  <2> QED
    BY <1>1, <2>1 DEF TypeOK
<1>5. QueueInv'
  BY <1>1, <1>3, Types DEF QueueInv, Queued
<1>6. CallInv'
  <2>1. /\ hub'.call = id /\ hub'.waited = 0 /\ hub'.belief = "unknown"
        /\ 0 <= HubTimeout /\ 0 <= MaxStall
    BY <1>1
  <2> QED
    BY <1>2, <2>1 DEF CallInv, Current
<1>7. OrphanInv'
  BY <1>1, <1>3 DEF OrphanInv
<1>8. DrainInv'
  <2>1. \A n \in DOMAIN backlog' : backlog'[n] # id
    BY <1>1, <1>3 DEF Queued
  <2> QED
    BY <1>1, <1>2, <2>1 DEF DrainInv, Current
<1>9. BeliefInv' /\ FreshInv'
  BY <1>1, <1>2 DEF BeliefInv, FreshInv, Current
<1> QED
  BY <1>4, <1>5, <1>6, <1>7, <1>8, <1>9

(* When the Hub gives up, the deadline of its request has run out. *)
LEMMA StepHubTimesOut == ASSUME Prompt, IInv, HubTimesOut PROVE IInv'
<1> USE BridgeAssumption DEF IInv
<1>1. /\ hub.call \in Ids /\ hub.waited = HubTimeout
      /\ UNCHANGED <<req, backlog, ready, valve, left>>
      /\ hub' = [call |-> None, waited |-> 0, belief |-> "unknown"]
  BY Types DEF HubTimesOut, Told
<1>2. \A u \in Ids : Armed(u) => u # hub.call
  <2>1. req[hub.call].at # "inbox" /\ req[hub.call].ttl = 0
    BY <1>1, Types DEF CallInv, Current, Prompt
  <2> QED
    BY <2>1 DEF Armed
<1>3. \A u \in Ids : Queued(u)' <=> Queued(u)
  BY <1>1 DEF Queued
<1>4. \A u \in Ids : Armed(u)' => Armed(u)
  BY <1>1, <1>3 DEF Armed
<1>5. TypeOK' /\ QueueInv'
  BY <1>1 DEF TypeOK, QueueInv
<1>6. OrphanInv'
  BY <1>1, <1>2, <1>3, <1>4 DEF OrphanInv
<1>7. CallInv' /\ DrainInv' /\ BeliefInv' /\ FreshInv'
  BY <1>1 DEF CallInv, DrainInv, BeliefInv, FreshInv
<1> QED
  BY <1>5, <1>6, <1>7

LEMMA StepReject == ASSUME IInv, NEW id \in Ids, Reject(id) PROVE IInv'
<1> USE BridgeAssumption DEF IInv
<1>1. /\ req[id].at = "inbox" /\ UNCHANGED <<backlog, ready, valve, left>>
      /\ hub' = (IF hub.call # id THEN hub
                 ELSE [call |-> None, waited |-> 0, belief |-> "unknown"])
      /\ \A u \in Ids : u # id => req'[u] = req[u]
      /\ req'[id] = Free /\ req' = [req EXCEPT ![id] = Free]
  BY Types DEF Reject, Receipt, Told
<1>2. /\ \A u \in Ids : Queued(u)' <=> Queued(u)
      /\ \A u \in Ids : Armed(u)' => Armed(u) /\ u # id
      /\ ~Queued(id)
  BY <1>1, OneRequest, NotQueued, FreeFacts DEF Armed
<1>3. TypeOK'
  BY <1>1, FreeFacts, Types DEF TypeOK
<1>4. QueueInv'
  BY <1>1, <1>2, Types DEF QueueInv, Queued
<1>5. CallInv' /\ FreshInv'
  BY <1>1 DEF CallInv, FreshInv, Current
<1>6. OrphanInv'
  BY <1>1, <1>2 DEF OrphanInv
<1>7. DrainInv' /\ BeliefInv'
  BY <1>1, <1>2, Types DEF DrainInv, BeliefInv, Quiet, Current
<1> QED
  BY <1>3, <1>4, <1>5, <1>6, <1>7

LEMMA StepValidate == ASSUME IInv, NEW id \in Ids, Validate(id) PROVE IInv'
<1> USE BridgeAssumption DEF IInv
<1>1. /\ req[id].at = "inbox" /\ UNCHANGED <<backlog, hub, ready, valve, left>>
      /\ \A u \in Ids : u # id => req'[u] = req[u]
      /\ req'[id] = [req[id] EXCEPT !.at = "started", !.ttl = Ttl]
      /\ req' = [req EXCEPT ![id] = req'[id]]
  BY Types DEF Validate
<1>2. /\ req'[id] \in Requests /\ req'[id].at = "started" /\ req'[id].ttl = Ttl
      /\ req'[id].command = req[id].command /\ req'[id].startup = req[id].startup
  BY <1>1, Types DEF Requests, Stages
<1>3. /\ \A u \in Ids : Queued(u)' <=> Queued(u)
      /\ \A u \in Ids : Armed(u)' => Armed(u)
      /\ ~Queued(id)
  BY <1>1, <1>2, OneRequest, NotQueued DEF Armed
<1>4. TypeOK'
  BY <1>1, <1>2, Types DEF TypeOK
<1>5. QueueInv'
  BY <1>1, <1>3, Types DEF QueueInv, Queued
<1>6. CallInv' /\ FreshInv'
  <2>1. CASE hub.call = id
    <3>1. /\ hub.belief = "unknown" /\ hub.waited <= HubTimeout /\ ~req[id].startup
          /\ hub.waited <= MaxStall /\ hub.waited \in Nat
      BY <1>1, <2>1, Types DEF CallInv, Current
    <3>2. hub.waited + Ttl <= MaxStall + Ttl
      BY <3>1
    <3> QED
      BY <1>1, <1>2, <2>1, <3>1, <3>2 DEF CallInv, FreshInv, Current
  <2>2. CASE hub.call # id
    BY <1>1, <2>2, Types DEF CallInv, FreshInv, Current
  <2> QED
    BY <2>1, <2>2
<1>7. OrphanInv'
  BY <1>1, <1>3 DEF OrphanInv
<1>8. DrainInv' /\ BeliefInv'
  BY <1>1, <1>2, <1>3, Types DEF DrainInv, BeliefInv, Quiet, Current
<1> QED
  BY <1>4, <1>5, <1>6, <1>7, <1>8

LEMMA StepStartupDrain == ASSUME IInv, NEW id \in Ids, StartupDrain(id) PROVE IInv'
<1> USE BridgeAssumption DEF IInv
<1>1. /\ req[id].at = "free" /\ UNCHANGED <<backlog, hub, valve, left>> /\ ready' = "asked"
      /\ \A u \in Ids : u # id => req'[u] = req[u]
      /\ req'[id] = [Free EXCEPT !.at = "started", !.startup = TRUE, !.ttl = Ttl]
      /\ req' = [req EXCEPT ![id] = req'[id]]
  BY Types DEF StartupDrain
<1>2. /\ req'[id] \in Requests /\ req'[id].at = "started" /\ req'[id].command = "DRAIN"
  <2>1. /\ "started" \in Stages /\ TRUE \in BOOLEAN /\ Ttl \in Nat /\ Free \in Requests
    BY FreeFacts DEF Stages
  <2>2. req'[id] \in Requests
    BY Zenon, <1>1, <2>1 DEF Requests
  <2> QED
    BY <1>1, <2>2, FreeFacts DEF Requests
<1>3. /\ \A u \in Ids : Queued(u)' <=> Queued(u)
      /\ \A u \in Ids : Armed(u)' => Armed(u)
      /\ ~Queued(id) /\ hub.call # id
  BY <1>1, <1>2, OneRequest, NotQueued DEF Armed, CallInv, Current
<1>4. TypeOK'
  BY <1>1, <1>2, Types DEF TypeOK
<1>5. QueueInv'
  BY <1>1, <1>3, Types DEF QueueInv, Queued
<1>6. CallInv' /\ FreshInv'
  BY <1>1, <1>3, Types DEF CallInv, FreshInv, Current
<1>7. OrphanInv'
  BY <1>1, <1>3 DEF OrphanInv
<1>8. DrainInv' /\ BeliefInv'
  BY <1>1, <1>3, Types DEF DrainInv, BeliefInv, Quiet, Current
<1> QED
  BY <1>4, <1>5, <1>6, <1>7, <1>8

(* The bytes go behind everything that earlier calls have left there. *)
LEMMA StepConnect == ASSUME IInv, NEW id \in Ids, Connect(id) PROVE IInv'
<1> USE BridgeAssumption DEF IInv
<1>1. /\ req[id].at = "started" /\ UNCHANGED <<hub, ready, valve, left>>
      /\ \A u \in Ids : u # id => req'[u] = req[u]
      /\ req'[id] = [req[id] EXCEPT !.at = "waiting"]
      /\ req' = [req EXCEPT ![id] = req'[id]] /\ backlog' = Append(backlog, id)
  BY Types DEF Connect
<1>2. /\ req'[id] \in Requests /\ req'[id].at = "waiting" /\ req'[id].ttl = req[id].ttl
      /\ req'[id].command = req[id].command /\ req'[id].startup = req[id].startup
  BY <1>1, Types DEF Requests, Stages
<1>3. /\ backlog' \in Seq(Ids) /\ Len(backlog') = Len(backlog) + 1
      /\ DOMAIN backlog' = 1..(Len(backlog) + 1)
      /\ \A n \in DOMAIN backlog : backlog'[n] = backlog[n]
      /\ backlog'[Len(backlog) + 1] = id
  BY <1>1, Types, AppendProperties, LenProperties
<1>4. \A n \in DOMAIN backlog : backlog[n] # id
  BY <1>1, NotQueued DEF Queued
<1>5. /\ Queued(id)' /\ ~Queued(id)
      /\ \A u \in Ids : u # id => (Queued(u)' <=> Queued(u))
  BY <1>3, <1>4, Types DEF Queued
<1>6. \A u \in Ids : Armed(u)' => Armed(u)
  BY <1>1, <1>2, <1>5 DEF Armed
<1>7. TypeOK'
  BY <1>1, <1>2, <1>3, Types DEF TypeOK
<1>8. QueueInv'
  <2>1. ASSUME NEW n \in DOMAIN backlog'
        PROVE  \/ n \in DOMAIN backlog /\ backlog'[n] = backlog[n] /\ backlog[n] # id
               \/ n = Len(backlog) + 1 /\ backlog'[n] = id
    BY <1>3, <1>4, Types
  <2>2. \A n \in DOMAIN backlog' : req'[backlog'[n]].at \in {"waiting", "answered", "gone"}
    <3> SUFFICES ASSUME NEW n \in DOMAIN backlog'
                 PROVE  req'[backlog'[n]].at \in {"waiting", "answered", "gone"}
      OBVIOUS
    <3>1. CASE backlog'[n] = id
      BY <1>2, <3>1
    <3>2. CASE n \in DOMAIN backlog /\ backlog'[n] = backlog[n] /\ backlog[n] # id
      <4>1. req'[backlog[n]] = req[backlog[n]]
        BY <1>1, <3>2, Types
      <4> QED
        BY <3>2, <4>1 DEF QueueInv
    <3> QED
      BY <2>1, <3>1, <3>2
  <2>3. \A m, n \in DOMAIN backlog' : backlog'[m] = backlog'[n] => m = n
    BY <2>1 DEF QueueInv
  <2> QED
    BY <2>2, <2>3 DEF QueueInv
<1>9. CallInv' /\ FreshInv'
  BY <1>1, <1>2, Types DEF CallInv, FreshInv, Current
<1>10. OrphanInv'
  BY <1>1, <1>5, <1>6 DEF OrphanInv
<1>11. DrainInv'
  <2> SUFFICES ASSUME hub.call # None, Current.command = "DRAIN"
               PROVE  /\ \A m, n \in DOMAIN backlog', u \in Ids :
                            backlog'[n] = hub.call /\ backlog'[m] = u /\ Armed(u)' => m < n
                      /\ Current'.at = "answered" /\ Current'.ok => Quiet'
    BY <1>1, <1>2, Types DEF DrainInv, Current
  <2>1. ASSUME NEW m \in DOMAIN backlog', NEW n \in DOMAIN backlog', NEW u \in Ids,
               backlog'[n] = hub.call, backlog'[m] = u, Armed(u)'
        PROVE  m < n
    <3>1. Armed(u) /\ u # hub.call
      BY <2>1, <1>6 DEF Armed, Current
    <3>2. m # Len(backlog) + 1
      BY <2>1, <3>1, <1>3, <1>5 DEF OrphanInv
    <3>3. m \in DOMAIN backlog /\ backlog[m] = u
      BY <2>1, <3>2, <1>3, Types
    <3>4. CASE n = Len(backlog) + 1
      BY <3>3, <3>4, Types
    <3>5. CASE n # Len(backlog) + 1
      <4>1. n \in DOMAIN backlog /\ backlog'[n] = backlog[n]
        BY <3>5, <1>3, Types
      <4> QED
        BY <2>1, <3>1, <3>3, <4>1 DEF DrainInv
    <3> QED
      BY <3>4, <3>5
  <2>2. Current'.at = "answered" /\ Current'.ok => Quiet'
    BY <1>1, <1>2, <1>6, Types DEF Current, DrainInv, Quiet
  <2> QED
    BY <2>1, <2>2
<1>12. BeliefInv'
  BY <1>1, <1>6 DEF BeliefInv, Quiet
<1> QED
  BY <1>7, <1>8, <1>9, <1>10, <1>11, <1>12

LEMMA StepClientFails == ASSUME IInv, NEW id \in Ids, ClientFails(id) PROVE IInv'
<1> USE BridgeAssumption DEF IInv
<1>1. /\ req[id].at = "waiting" \/ req[id].at = "started"
      /\ UNCHANGED <<backlog, hub, ready, valve, left>>
      /\ \A u \in Ids : u # id => req'[u] = req[u]
      /\ req'[id] = [req[id] EXCEPT !.at = "answered", !.ok = FALSE]
      /\ req' = [req EXCEPT ![id] = req'[id]]
  <2>1. req' = [req EXCEPT ![id] = [req[id] EXCEPT !.at = "answered", !.ok = FALSE]]
    BY Types DEF ClientFails
  <2>2. /\ req[id].at = "waiting" \/ req[id].at = "started"
        /\ UNCHANGED <<backlog, hub, ready, valve, left>>
    BY DEF ClientFails
  <2> QED
    BY <2>1, <2>2, Types
<1>2. /\ req'[id] \in Requests /\ req'[id].at = "answered" /\ req'[id].ttl = req[id].ttl
      /\ req'[id].command = req[id].command /\ req'[id].startup = req[id].startup
      /\ ~req'[id].ok
  <2>1. req[id] \in Requests /\ "answered" \in Stages /\ FALSE \in BOOLEAN
    BY Types DEF Stages
  <2>2. req'[id] \in Requests
    BY Zenon, <1>1, <2>1 DEF Requests
  <2> QED
    BY <1>1, <2>1, <2>2 DEF Requests
<1>3. /\ \A u \in Ids : Queued(u)' <=> Queued(u)
      /\ \A u \in Ids : Armed(u)' => Armed(u)
  BY <1>1, <1>2, OneRequest DEF Armed
<1>4. TypeOK'
  BY <1>1, <1>2, Types DEF TypeOK
<1>5. QueueInv'
  BY <1>1, <1>2, Types DEF QueueInv
<1>6. CallInv' /\ FreshInv'
  BY <1>1, <1>2, Types DEF CallInv, FreshInv, Current
<1>7. OrphanInv'
  BY <1>1, <1>3 DEF OrphanInv
<1>8. DrainInv' /\ BeliefInv'
  BY <1>1, <1>2, <1>3, Types DEF DrainInv, BeliefInv, Quiet, Current
<1> QED
  BY <1>4, <1>5, <1>6, <1>7, <1>8

(* The answer: what is left of the request, and what the Hub is told. *)
LEMMA StepRespond ==
    ASSUME IInv, NEW id \in Ids, NEW stderr \in BOOLEAN, Respond(id, stderr)
    PROVE  IInv'
<1> USE BridgeAssumption DEF IInv
<1>1. /\ req[id].at = "answered" /\ UNCHANGED <<backlog, valve, left>>
      /\ \A u \in Ids : u # id => req'[u] = req[u]
      /\ req'[id] = Forgotten(req[id], Queued(id))
      /\ req' = [req EXCEPT ![id] = req'[id]]
  BY Types DEF Respond
<1>2. Queued(id) \in BOOLEAN
  BY DEF Queued
<1>3. /\ req'[id] \in Requests
      /\ Queued(id) => req'[id].at = "gone" /\ req'[id].command = req[id].command
                       /\ req'[id].ttl = req[id].ttl
      /\ ~Queued(id) => req'[id] = Free
  <2>1. req[id] \in Requests
    BY Types
  <2> QED
    BY <1>1, <1>2, <2>1, ForgottenFacts
<1>4. /\ \A u \in Ids : Queued(u)' <=> Queued(u)
      /\ \A u \in Ids : Armed(u)' => Armed(u)
      /\ Armed(id)' => Queued(id)
  BY <1>1, <1>3, FreeFacts, OneRequest DEF Armed
<1>5. \/ hub' = hub /\ hub.call # id /\ ready' \in {"yes", "failed"}
      \/ /\ hub' = hub /\ hub.call # id /\ UNCHANGED ready
      \/ /\ hub.call = id /\ UNCHANGED ready
         /\ hub'.call = None /\ hub'.waited = 0
         /\ hub'.belief \in {"unknown", "drained", "supplying"}
         /\ hub'.belief = "drained" => req[id].ok /\ req[id].command = "DRAIN"
         /\ hub' \in [call : Ids \cup {None}, waited : Nat,
                      belief : {"unknown", "drained", "supplying"}]
  <2>1. CASE req[id].startup
    BY <2>1, Types DEF Respond, CallInv, Current
  <2>2. CASE ~req[id].startup /\ hub.call # id
    BY <2>2 DEF Respond, Receipt
  <2>3. CASE ~req[id].startup /\ hub.call = id
    <3>1. hub' = [call |-> None, waited |-> 0,
                  belief |-> IF ~(req[id].ok /\ ~stderr) THEN "unknown"
                             ELSE IF req[id].command = "DRAIN" THEN "drained" ELSE "supplying"]
      BY <2>3 DEF Respond, Receipt, Told
    <3> QED
      BY <2>3, <3>1, Types DEF Respond
  <2> QED
    BY <2>1, <2>2, <2>3
<1>6. TypeOK'
  BY <1>1, <1>3, <1>5, Types DEF TypeOK
<1>7. QueueInv'
  BY <1>1, <1>3, Types DEF QueueInv, Queued
<1>8. CallInv' /\ FreshInv'
  BY <1>1, <1>5, Types DEF CallInv, FreshInv, Current
<1>9. OrphanInv'
  BY <1>1, <1>4, <1>5 DEF OrphanInv
<1>10. DrainInv'
  BY <1>1, <1>4, <1>5, Types DEF DrainInv, Quiet, Current
<1>11. BeliefInv'
  BY <1>1, <1>4, <1>5, Types DEF DrainInv, BeliefInv, Quiet, Current
<1> QED
  BY <1>6, <1>7, <1>8, <1>9, <1>10, <1>11

LEMMA StepBridgeRestarts == ASSUME IInv, BridgeRestarts PROVE IInv'
<1> USE BridgeAssumption DEF IInv
<1>1. /\ UNCHANGED <<backlog, valve, left>> /\ ready' = "no"
      /\ req' = [u \in Ids |-> Forgotten(req[u], Queued(u))]
      /\ hub' = IF hub.call = None THEN hub
                ELSE [call |-> None, waited |-> 0, belief |-> "unknown"]
  BY DEF BridgeRestarts, Told
<1>2. \A u \in Ids :
        /\ req'[u] \in Requests
        /\ Queued(u) => req'[u].at = "gone" /\ req'[u].command = req[u].command
                        /\ req'[u].ttl = req[u].ttl
        /\ ~Queued(u) => req'[u] = Free
  <2> SUFFICES ASSUME NEW u \in Ids
               PROVE  /\ req'[u] \in Requests
                      /\ Queued(u) => req'[u].at = "gone" /\ req'[u].command = req[u].command
                                      /\ req'[u].ttl = req[u].ttl
                      /\ ~Queued(u) => req'[u] = Free
    OBVIOUS
  <2>1. req'[u] = Forgotten(req[u], Queued(u)) /\ Queued(u) \in BOOLEAN
    BY <1>1 DEF Queued
  <2> QED
    BY <2>1, ForgottenFacts, Types
<1>3. \A u \in Ids : Queued(u)' <=> Queued(u)
  BY <1>1 DEF Queued
<1>4. \A u \in Ids : Armed(u)' => Armed(u) /\ Queued(u)
  BY <1>2, <1>3, FreeFacts DEF Armed
<1>5. TypeOK'
  BY <1>1, <1>2, Types DEF TypeOK
<1>6. QueueInv'
  BY <1>1, <1>2, Types DEF QueueInv, Queued
<1>7. OrphanInv'
  BY <1>3, <1>4 DEF OrphanInv
<1>8. CallInv' /\ DrainInv' /\ FreshInv'
  BY <1>1 DEF CallInv, DrainInv, FreshInv
<1>9. BeliefInv'
  BY <1>1, <1>4 DEF BeliefInv, Quiet
<1> QED
  BY <1>5, <1>6, <1>7, <1>8, <1>9

-----------------------------------------------------------------------------
(* The daemon takes the oldest command out of its socket and replies. *)
LEMMA RepliedFacts ==
    ASSUME IInv, backlog # <<>>, NEW id, id = Head(backlog), NEW ok \in BOOLEAN,
           Replied(id, ok)
    PROVE  /\ id \in Ids /\ UNCHANGED <<hub, ready>>
           /\ \A u \in Ids : u # id => req'[u] = req[u]
           /\ req[id].at = "waiting" =>
                 /\ req'[id].at = "answered" /\ req'[id].ok = ok
                 /\ req'[id].command = req[id].command
           /\ req[id].at = "answered" => req'[id] = req[id]
           /\ Queued(id) /\ ~Armed(id)' /\ \A u \in Ids : Armed(u)' => Armed(u)
           /\ req' \in [Ids -> Requests] /\ backlog' \in Seq(Ids)
           /\ QueueInv' /\ CallInv' /\ OrphanInv'
           /\ \A n \in DOMAIN backlog' : n + 1 \in DOMAIN backlog /\ backlog'[n] = backlog[n + 1]
<1> USE BridgeAssumption DEF IInv
<1>1. /\ 1 \in DOMAIN backlog /\ id = backlog[1] /\ id \in Ids
      /\ backlog' = Tail(backlog) /\ backlog' \in Seq(Ids)
      /\ DOMAIN backlog' = 1..(Len(backlog) - 1)
      /\ \A n \in DOMAIN backlog' : backlog'[n] = backlog[n + 1]
  <2>1. backlog \in Seq(Ids) /\ backlog' = Tail(backlog)
    BY DEF TypeOK, Replied
  <2>2. Len(backlog) \in Nat \ {0}
    BY <2>1, EmptySeq
  <2> QED
    BY <2>1, <2>2, HeadTailProperties, LenProperties
<1>2. /\ UNCHANGED <<hub, ready>>
      /\ req' = [req EXCEPT ![id] =
                   CASE req[id].at = "waiting" -> [req[id] EXCEPT !.at = "answered", !.ok = ok]
                     [] req[id].at = "gone" -> Free
                     [] OTHER -> req[id]]
  BY DEF Replied
<1>3. \A n \in DOMAIN backlog' : /\ n + 1 \in DOMAIN backlog
                                 /\ backlog'[n] # id /\ backlog'[n] \in Ids
  <2> SUFFICES ASSUME NEW n \in DOMAIN backlog'
               PROVE  n + 1 \in DOMAIN backlog /\ backlog'[n] # id /\ backlog'[n] \in Ids
    OBVIOUS
  <2>1. n + 1 \in DOMAIN backlog /\ n + 1 # 1
    BY <1>1, Types
  <2> QED
    BY <1>1, <2>1, Types DEF QueueInv
<1>4. /\ Queued(id) /\ ~Queued(id)'
      /\ \A u \in Ids : u # id => (Queued(u)' <=> Queued(u))
  <2>1. Queued(id) /\ ~Queued(id)'
    BY <1>1, <1>3 DEF Queued
  <2>2. ASSUME NEW u \in Ids, u # id, Queued(u) PROVE Queued(u)'
    <3>1. PICK n \in DOMAIN backlog : backlog[n] = u
      BY <2>2 DEF Queued
    <3>2. n # 1 /\ n \in 1..Len(backlog)
      BY <1>1, <2>2, <3>1, Types
    <3>3. n - 1 \in DOMAIN backlog' /\ backlog'[n - 1] = u
      BY <1>1, <3>1, <3>2, Types
    <3> QED
      BY <3>3 DEF Queued
  <2>3. ASSUME NEW u \in Ids, Queued(u)' PROVE Queued(u)
    BY <1>1, <1>3, <2>3 DEF Queued
  <2> QED
    BY <2>1, <2>2, <2>3
<1>5. /\ \A u \in Ids : u # id => req'[u] = req[u]
      /\ req[id].at \in {"waiting", "answered", "gone"}
      /\ req'[id] = CASE req[id].at = "waiting" -> [req[id] EXCEPT !.at = "answered", !.ok = ok]
                      [] req[id].at = "gone" -> Free
                      [] OTHER -> req[id]
  BY <1>1, <1>2, Types DEF QueueInv
<1>6. /\ req'[id] \in Requests
      /\ req[id].at = "waiting" =>
            /\ req'[id].at = "answered" /\ req'[id].ok = ok
            /\ req'[id].command = req[id].command
            /\ req'[id].ttl = req[id].ttl /\ req'[id].startup = req[id].startup
      /\ req[id].at = "gone" => req'[id] = Free
      /\ req[id].at = "answered" => req'[id] = req[id]
  <2>1. CASE req[id].at = "waiting"
    <3>1. req'[id] = [req[id] EXCEPT !.at = "answered", !.ok = ok]
      BY <1>5, <2>1
    <3>2. req[id] \in Requests /\ "answered" \in Stages
      BY <1>1, Types DEF Stages
    <3>3. req'[id] \in Requests
      BY Zenon, <3>1, <3>2 DEF Requests
    <3> QED
      BY <2>1, <3>1, <3>2, <3>3 DEF Requests
  <2>2. CASE req[id].at = "gone"
    BY <1>5, <2>2, FreeFacts
  <2>3. CASE req[id].at = "answered"
    BY <1>1, <1>5, <2>3, Types
  <2> QED
    BY <1>5, <2>1, <2>2, <2>3
<1>7. ~Armed(id)' /\ \A u \in Ids : Armed(u)' => Armed(u)
  <2>1. ~Armed(id)'
    BY <1>4, <1>5, <1>6, FreeFacts DEF Armed
  <2>2. ASSUME NEW u \in Ids, u # id, Armed(u)' PROVE Armed(u)
    BY <1>4, <1>5, <2>2 DEF Armed
  <2>3. ASSUME NEW u \in Ids, u = id PROVE ~Armed(u)'
    BY <1>4, <1>5, <1>6, <2>3, FreeFacts DEF Armed
  <2> QED
    BY <2>1, <2>2, <2>3
<1>8. req' \in [Ids -> Requests]
  BY <1>1, <1>2, <1>5, <1>6, Types
<1>9. QueueInv'
  <2>1. \A n \in DOMAIN backlog' : req'[backlog'[n]].at \in {"waiting", "answered", "gone"}
    BY <1>1, <1>3, <1>5 DEF QueueInv
  <2>2. ASSUME NEW m \in DOMAIN backlog', NEW n \in DOMAIN backlog', backlog'[m] = backlog'[n]
        PROVE  m = n
    <3>1. m + 1 = n + 1
      BY <1>1, <1>3, <2>2 DEF QueueInv
    <3> QED
      BY <1>1, <3>1
  <2> QED
    BY <2>1, <2>2 DEF QueueInv
<1>10. CallInv'
  BY <1>1, <1>2, <1>5, <1>6, Types DEF CallInv, Current
<1>11. OrphanInv'
  <2> SUFFICES ASSUME NEW u \in Ids, Armed(u)', u # hub'.call PROVE Queued(u)'
    BY DEF OrphanInv
  <2>1. Armed(u) /\ u # hub.call
    BY <1>2, <1>7
  <2>2. u # id
    BY <1>4, <1>5, <1>6, FreeFacts DEF Armed
  <2> QED
    BY <1>4, <2>1, <2>2 DEF OrphanInv
<1> QED
  BY <1>1, <1>2, <1>3, <1>4, <1>5, <1>6, <1>7, <1>8, <1>9, <1>10, <1>11

(* The order in the socket is kept. *)
LEMMA OrderKept ==
    ASSUME IInv, backlog # <<>>, NEW id, id = Head(backlog), NEW ok \in BOOLEAN,
           Replied(id, ok), hub.call # None, Current.command = "DRAIN",
           NEW m \in DOMAIN backlog', NEW n \in DOMAIN backlog', NEW u \in Ids,
           backlog'[n] = hub.call, backlog'[m] = u, Armed(u)'
    PROVE  m < n
<1>1. /\ m + 1 \in DOMAIN backlog /\ n + 1 \in DOMAIN backlog
      /\ backlog[n + 1] = hub.call /\ backlog[m + 1] = u /\ Armed(u)
      /\ backlog' \in Seq(Ids)
  BY RepliedFacts
<1>2. m + 1 < n + 1
  BY <1>1 DEF IInv, DrainInv
<1> QED
  BY <1>1, <1>2, LenProperties

(* A DRAIN has nothing armed before it, nor behind it. *)
LEMMA StepServeDrain == ASSUME IInv, ServeDrain PROVE IInv'
<1> USE BridgeAssumption DEF IInv
<1>0. PICK id : id = Head(backlog)
  OBVIOUS
<1>1. PICK ok \in BOOLEAN : Replied(id, ok)
  BY <1>0 DEF ServeDrain
<1>2. /\ backlog # <<>> /\ req[id].command = "DRAIN"
      /\ valve' \in {"drain", "unconfirmed"} /\ left' = 0
  BY <1>0, ValveFacts DEF ServeDrain
<1>3. /\ id \in Ids /\ UNCHANGED <<hub, ready>>
      /\ \A u \in Ids : u # id => req'[u] = req[u]
      /\ req[id].at = "waiting" =>
            /\ req'[id].at = "answered" /\ req'[id].ok = ok
            /\ req'[id].command = req[id].command
      /\ req[id].at = "answered" => req'[id] = req[id]
      /\ Queued(id) /\ ~Armed(id)' /\ \A u \in Ids : Armed(u)' => Armed(u)
      /\ req' \in [Ids -> Requests] /\ backlog' \in Seq(Ids)
      /\ QueueInv' /\ CallInv' /\ OrphanInv'
  BY <1>0, <1>1, <1>2, RepliedFacts
<1>4. TypeOK'
  BY <1>2, <1>3 DEF TypeOK
<1>5. DrainInv'
  <2> SUFFICES ASSUME hub.call # None, req'[hub.call].command = "DRAIN"
               PROVE  /\ \A m, n \in DOMAIN backlog', u \in Ids :
                            backlog'[n] = hub.call /\ backlog'[m] = u /\ Armed(u)' => m < n
                      /\ req'[hub.call].at = "answered" /\ req'[hub.call].ok => Quiet'
    BY <1>3 DEF DrainInv, Current
  <2>1. hub.call \in Ids /\ Current.command = "DRAIN"
    BY <1>2, <1>3, Types DEF Current
  <2>2. \A m, n \in DOMAIN backlog', u \in Ids :
          backlog'[n] = hub.call /\ backlog'[m] = u /\ Armed(u)' => m < n
    BY <1>1, <1>2, <2>1, <1>0, OrderKept
  <2>3. CASE hub.call # id
    BY <1>2, <1>3, <2>1, <2>2, <2>3 DEF DrainInv, Current, Quiet
  <2>4. CASE hub.call = id
    <3>1. ASSUME NEW u \in Ids, Armed(u) PROVE FALSE
      <4>1. u # hub.call
        BY <2>1, <3>1 DEF Armed, Current
      <4>2. PICK m \in DOMAIN backlog : backlog[m] = u
        BY <3>1, <4>1 DEF OrphanInv, Queued
      <4>3. 1 \in DOMAIN backlog /\ backlog[1] = hub.call
        <5>1. backlog \in Seq(Ids) /\ backlog # <<>>
          BY <1>2, Types
        <5>2. Len(backlog) \in Nat \ {0}
          BY <5>1, EmptySeq
        <5> QED
          BY <1>0, <2>4, <5>1, <5>2, Types
      <4>4. m < 1
        BY <2>1, <3>1, <4>2, <4>3 DEF DrainInv
      <4> QED
        BY <4>2, <4>4, Types
    <3> QED
      BY <1>2, <1>3, <2>2, <3>1 DEF Quiet
  <2> QED
    BY <2>3, <2>4
<1>6. BeliefInv' /\ FreshInv'
  BY <1>2, <1>3 DEF BeliefInv, FreshInv, Quiet
<1> QED
  BY <1>3, <1>4, <1>5, <1>6

(* A SUPPLY that opens the valve was armed, so no DRAIN has been confirmed. *)
LEMMA StepServeSupply == ASSUME IInv, ServeSupply PROVE IInv'
<1> USE BridgeAssumption DEF IInv
<1>0. PICK id : id = Head(backlog)
  OBVIOUS
<1>1. PICK ok \in BOOLEAN :
        /\ Replied(id, ok)
        /\ \/ req[id].ttl > 0 /\ ok /\ valve' = "supply" /\ left' = Lease
           \/ ~ok /\ valve' \in {"drain", "unconfirmed"} /\ left' = 0
           \/ ~ok /\ UNCHANGED <<valve, left>>
  BY <1>0, ValveFacts DEF ServeSupply, Supply
<1>2. backlog # <<>> /\ req[id].command # "DRAIN"
  BY <1>0 DEF ServeSupply
<1>3. /\ id \in Ids /\ UNCHANGED <<hub, ready>>
      /\ \A u \in Ids : u # id => req'[u] = req[u]
      /\ req[id].at = "waiting" =>
            /\ req'[id].at = "answered" /\ req'[id].ok = ok
            /\ req'[id].command = req[id].command
      /\ req[id].at = "answered" => req'[id] = req[id]
      /\ Queued(id) /\ ~Armed(id)' /\ \A u \in Ids : Armed(u)' => Armed(u)
      /\ req' \in [Ids -> Requests] /\ backlog' \in Seq(Ids)
      /\ QueueInv' /\ CallInv' /\ OrphanInv'
  BY <1>0, <1>1, <1>2, RepliedFacts
<1>4. req[id].ttl > 0 => Armed(id)
  BY <1>2, <1>3 DEF Armed
<1>5. Quiet => valve' # "supply"
  BY <1>1, <1>3, <1>4 DEF Quiet
<1>6. TypeOK'
  BY <1>1, <1>3, Types DEF TypeOK
<1>7. /\ hub.call # None => hub.call \in Ids
      /\ hub.call = id => req[id].at \in {"waiting", "answered"}
  BY <1>2, <1>3, Types DEF CallInv, Current, QueueInv, Queued
<1>8. DrainInv'
  <2> SUFFICES ASSUME hub.call # None, req'[hub.call].command = "DRAIN"
               PROVE  /\ \A m, n \in DOMAIN backlog', u \in Ids :
                            backlog'[n] = hub.call /\ backlog'[m] = u /\ Armed(u)' => m < n
                      /\ req'[hub.call].at = "answered" /\ req'[hub.call].ok => Quiet'
    BY <1>3 DEF DrainInv, Current
  <2>1. hub.call # id
    BY <1>2, <1>3, <1>7
  <2>2. Current.command = "DRAIN" /\ req'[hub.call] = req[hub.call]
    BY <1>3, <1>7, <2>1 DEF Current
  <2>3. \A m, n \in DOMAIN backlog', u \in Ids :
          backlog'[n] = hub.call /\ backlog'[m] = u /\ Armed(u)' => m < n
    BY <1>1, <1>2, <2>2, <1>0, OrderKept
  <2>4. req'[hub.call].at = "answered" /\ req'[hub.call].ok => Quiet'
    BY <1>3, <1>5, <2>2 DEF DrainInv, Current, Quiet
  <2> QED
    BY <2>3, <2>4
<1>9. BeliefInv'
  BY <1>3, <1>5 DEF BeliefInv, Quiet
<1>10. FreshInv'
  <2> SUFFICES ASSUME hub.call # None, req'[hub.call].command # "DRAIN",
                      req'[hub.call].at = "answered", req'[hub.call].ok, valve' = "supply"
               PROVE  left' + hub.waited >= Lease
    BY <1>3 DEF FreshInv, Current
  <2>1. CASE left' = Lease
    BY <2>1, Types
  <2>2. CASE ~ok /\ UNCHANGED <<valve, left>>
    <3>1. req'[hub.call] = req[hub.call]
      BY <1>3, <1>7, <2>2
    <3> QED
      BY <2>2, <3>1 DEF FreshInv, Current
  <2> QED
    BY <1>1, <2>1, <2>2
<1> QED
  BY <1>3, <1>6, <1>8, <1>9, <1>10

LEMMA StepEnforce == IInv /\ Enforce => IInv'
<1> SUFFICES ASSUME IInv, Enforce PROVE IInv'
  OBVIOUS
<1> USE DEF IInv
<1>1. /\ UNCHANGED <<req, backlog, hub, ready>>
      /\ valve' \in {"drain", "unconfirmed"} /\ left' = 0
  BY ValveFacts DEF Enforce
<1>2. \A u \in Ids : Queued(u)' <=> Queued(u)
  BY <1>1 DEF Queued
<1>3. \A u \in Ids : Armed(u)' <=> Armed(u)
  BY <1>1, <1>2 DEF Armed
<1>4. TypeOK' /\ QueueInv' /\ CallInv' /\ FreshInv'
  BY <1>1 DEF TypeOK, QueueInv, CallInv, Current, FreshInv
<1>5. OrphanInv'
  BY <1>1, <1>2, <1>3 DEF OrphanInv
<1>6. DrainInv' /\ BeliefInv'
  BY <1>1, <1>3 DEF DrainInv, BeliefInv, Quiet, Current
<1> QED
  BY <1>4, <1>5, <1>6

(* The socket is lost, and with it every command that was in it. *)
LEMMA StepDaemonRestarts == IInv /\ DaemonRestarts => IInv'
<1> SUFFICES ASSUME IInv, DaemonRestarts PROVE IInv'
  OBVIOUS
<1> USE BridgeAssumption DEF IInv
<1>1. /\ backlog' = <<>> /\ UNCHANGED <<hub, ready>>
      /\ valve' \in {"drain", "unconfirmed"} /\ left' = 0
      /\ req' = [u \in Ids |->
                   CASE req[u].at = "waiting" -> [req[u] EXCEPT !.at = "answered", !.ok = FALSE]
                     [] req[u].at = "gone" -> Free
                     [] OTHER -> req[u]]
  BY ValveFacts DEF DaemonRestarts
<1>2. DOMAIN backlog' = {} /\ backlog' \in Seq(Ids)
  <2>1. <<>> \in Seq(Ids)
    BY EmptySeq
  <2>2. DOMAIN <<>> = {}
    OBVIOUS
  <2> QED
    BY Zenon, <1>1, <2>1, <2>2
<1>3. \A u \in Ids :
        /\ req'[u] \in Requests
        /\ req[u].at = "waiting" =>
              /\ req'[u].at = "answered" /\ ~req'[u].ok /\ req'[u].command = req[u].command
              /\ req'[u].ttl = req[u].ttl /\ req'[u].startup = req[u].startup
        /\ req[u].at = "gone" => req'[u] = Free
        /\ req[u].at \notin {"waiting", "gone"} => req'[u] = req[u]
  <2> SUFFICES ASSUME NEW u \in Ids
               PROVE  /\ req'[u] \in Requests
                      /\ req[u].at = "waiting" =>
                            /\ req'[u].at = "answered" /\ ~req'[u].ok
                            /\ req'[u].command = req[u].command
                            /\ req'[u].ttl = req[u].ttl /\ req'[u].startup = req[u].startup
                      /\ req[u].at = "gone" => req'[u] = Free
                      /\ req[u].at \notin {"waiting", "gone"} => req'[u] = req[u]
    OBVIOUS
  <2>1. req[u] \in Requests /\ "answered" \in Stages /\ FALSE \in BOOLEAN
    BY Types DEF Stages
  <2>2. CASE req[u].at = "waiting"
    <3>1. req'[u] = [req[u] EXCEPT !.at = "answered", !.ok = FALSE]
      BY <1>1, <2>2
    <3>2. req'[u] \in Requests
      BY Zenon, <3>1, <2>1 DEF Requests
    <3> QED
      BY <2>1, <2>2, <3>1, <3>2 DEF Requests
  <2>3. CASE req[u].at = "gone"
    BY <1>1, <2>3, FreeFacts
  <2>4. CASE req[u].at \notin {"waiting", "gone"}
    BY <1>1, <2>1, <2>4
  <2> QED
    BY <2>2, <2>3, <2>4
<1>4. \A u \in Ids : ~Queued(u)'
  BY <1>2 DEF Queued
<1>5. \A u \in Ids : Armed(u)' => Armed(u) /\ ~Queued(u)
  <2> SUFFICES ASSUME NEW u \in Ids, Armed(u)' PROVE Armed(u) /\ ~Queued(u)
    OBVIOUS
  <2>1. /\ req'[u].command # "DRAIN"
        /\ req'[u].at = "inbox" \/ (req'[u].at = "started" /\ req'[u].ttl > 0)
    BY <1>4 DEF Armed
  <2>2. req'[u] = req[u] /\ req[u].at \in {"inbox", "started"}
    BY <1>3, <2>1, FreeFacts
  <2>3. Armed(u)
    BY <2>1, <2>2 DEF Armed
  <2> QED
    BY <2>2, <2>3, NotQueued
<1>6. TypeOK'
  <2>1. req' \in [Ids -> Requests]
    BY <1>1, <1>3
  <2>2. left' \in Int /\ valve' \in {"drain", "supply", "unconfirmed"}
    <3>1. left' = 0 /\ valve' \in {"drain", "unconfirmed"}
      BY Zenon, <1>1
    <3> QED
      BY <3>1
  <2> QED
    BY <1>1, <1>2, <2>1, <2>2 DEF TypeOK
<1>7. QueueInv'
  BY <1>2 DEF QueueInv
<1>8. CallInv' /\ FreshInv'
  <2>1. FreshInv'
    <3>1. valve' # "supply"
      BY <1>1
    <3> QED
      BY Zenon, <3>1 DEF FreshInv
  <2>2. CASE hub.call = None
    BY <1>1, <2>1, <2>2 DEF CallInv
  <2>3. CASE hub.call # None
    <3>1. PICK id \in Ids : id = hub.call
      BY <2>3, Types
    <3>2. /\ hub'.call = id /\ hub'.belief = "unknown" /\ hub'.waited = hub.waited
          /\ hub.waited <= HubTimeout
          /\ Current = req[id] /\ Current' = req'[id]
          /\ req[id].at \in {"inbox", "started", "waiting", "answered"} /\ ~req[id].startup
          /\ req[id].at = "inbox" => hub.waited = req[id].age /\ req[id].age <= MaxStall
          /\ req[id].at # "inbox" => req[id].ttl = 0 \/ hub.waited + req[id].ttl <= MaxStall + Ttl
      BY <1>1, <2>3, <3>1 DEF CallInv, Current
    <3>3. CASE req[id].at = "waiting"
      <4>1. /\ req'[id].at = "answered" /\ req'[id].ttl = req[id].ttl
            /\ req'[id].startup = req[id].startup
        BY <1>3, <3>3
      <4> QED
        BY <2>1, <3>2, <3>3, <4>1 DEF CallInv
    <3>4. CASE req[id].at # "waiting"
      <4>1. req'[id] = req[id]
        BY <1>3, <3>2, <3>4
      <4> QED
        BY <2>1, <3>2, <4>1 DEF CallInv
    <3> QED
      BY <3>3, <3>4
  <2> QED
    BY <2>2, <2>3
<1>9. OrphanInv'
  BY <1>1, <1>5 DEF OrphanInv
<1>10. DrainInv'
  BY <1>1, <1>2, <1>3, <1>5, Types DEF DrainInv, CallInv, Current, Quiet
<1>11. BeliefInv'
  BY <1>1, <1>5 DEF BeliefInv, Quiet
<1> QED
  BY <1>6, <1>7, <1>8, <1>9, <1>10, <1>11

(* The call and its deadline age together. *)
LEMMA StepTick == IInv /\ Tick => IInv'
<1> SUFFICES ASSUME IInv, Tick PROVE IInv'
  OBVIOUS
<1> USE BridgeAssumption DEF IInv
<1>1. /\ UNCHANGED <<backlog, ready>> /\ valve' = valve
      /\ left' \in {left, left - 1}
      /\ valve = "supply" => left' = left - 1
      /\ req' = [u \in Ids |-> Aged(req[u])]
      /\ hub.call # None => hub.waited < HubTimeout
      /\ \A u \in Ids : req[u].at = "inbox" => req[u].age < MaxStall
  BY DEF Tick, Elapse
<1>2. /\ hub'.call = hub.call /\ hub'.belief = hub.belief
      /\ hub.call # None => hub'.waited = hub.waited + 1
      /\ hub' \in [call : Ids \cup {None}, waited : Nat,
                   belief : {"unknown", "drained", "supplying"}]
  <2>1. hub \in [call : Ids \cup {None}, waited : Nat,
                 belief : {"unknown", "drained", "supplying"}]
    BY DEF TypeOK
  <2>2. CASE hub.call = None
    BY <2>1, <2>2 DEF Tick
  <2>3. CASE hub.call # None
    <3>1. hub' = [hub EXCEPT !.waited = hub.waited + 1] /\ hub.waited + 1 \in Nat
      BY <2>1, <2>3 DEF Tick
    <3> QED
      BY <2>1, <3>1
  <2> QED
    BY <2>2, <2>3
<1>3. \A u \in Ids :
        /\ req'[u] \in Requests
        /\ req'[u].at = req[u].at /\ req'[u].command = req[u].command
        /\ req'[u].startup = req[u].startup /\ req'[u].ok = req[u].ok
        /\ req'[u].ttl <= req[u].ttl
        /\ req[u].at # "free" /\ req[u].ttl > 0 => req'[u].ttl = req[u].ttl - 1
        /\ req[u].at = "inbox" => req'[u].age = req[u].age + 1
  <2> SUFFICES ASSUME NEW u \in Ids
               PROVE  /\ req'[u] \in Requests
                      /\ req'[u].at = req[u].at /\ req'[u].command = req[u].command
                      /\ req'[u].startup = req[u].startup /\ req'[u].ok = req[u].ok
                      /\ req'[u].ttl <= req[u].ttl
                      /\ req[u].at # "free" /\ req[u].ttl > 0 => req'[u].ttl = req[u].ttl - 1
                      /\ req[u].at = "inbox" => req'[u].age = req[u].age + 1
    OBVIOUS
  <2>1. req[u] \in Requests /\ req'[u] = Aged(req[u])
    BY <1>1, Types
  <2>2. CASE req[u].at = "free"
    BY <2>1, <2>2, Types DEF Aged
  <2>3. CASE req[u].at # "free"
    <3> DEFINE a == IF req[u].age < MaxAge THEN req[u].age + 1 ELSE req[u].age
               l == IF req[u].ttl > 0 THEN req[u].ttl - 1 ELSE req[u].ttl
               w == IF req[u].at = "waiting" /\ req[u].wait < ClientTimeout
                    THEN req[u].wait + 1 ELSE req[u].wait
    <3>1. req'[u] = [req[u] EXCEPT !.age = a, !.ttl = l, !.wait = w]
      BY <2>1, <2>3 DEF Aged
    <3>2. /\ a \in Nat /\ l \in Nat /\ w \in Nat /\ l <= req[u].ttl
          /\ req[u].ttl > 0 => l = req[u].ttl - 1
          /\ req[u].at = "inbox" => a = req[u].age + 1
      BY <1>1, Types DEF MaxAge
    <3> HIDE DEF a, l, w
    <3>3. req'[u] \in Requests
      BY Zenon, <2>1, <3>1, <3>2 DEF Requests
    <3> QED
      BY <2>1, <3>1, <3>2, <3>3 DEF Requests
  <2> QED
    BY <2>2, <2>3
<1>4. \A u \in Ids : Queued(u)' <=> Queued(u)
  BY <1>1 DEF Queued
<1>5. \A u \in Ids : Armed(u)' => Armed(u)
  <2> SUFFICES ASSUME NEW u \in Ids, Armed(u)' PROVE Armed(u)
    OBVIOUS
  <2>1. /\ req'[u].at = req[u].at /\ req'[u].command = req[u].command
        /\ req'[u].ttl <= req[u].ttl
        /\ req'[u].ttl \in Nat /\ req[u].ttl \in Nat
    BY <1>3, Types DEF Requests
  <2>2. req'[u].ttl > 0 => req[u].ttl > 0
    BY <2>1
  <2> QED
    BY Zenon, <1>4, <2>1, <2>2 DEF Armed
<1>6. TypeOK'
  <2>1. req' \in [Ids -> Requests] /\ left' \in Int
    BY <1>1, <1>3, Types
  <2> QED
    BY <1>1, <1>2, <2>1 DEF TypeOK
<1>7. QueueInv'
  BY <1>1, <1>3, Types DEF QueueInv
<1>8. CallInv'
  <2> SUFFICES ASSUME hub.call # None
               PROVE  /\ hub'.belief = "unknown" /\ hub'.waited <= HubTimeout
                      /\ Current'.at \in {"inbox", "started", "waiting", "answered"}
                      /\ ~Current'.startup
                      /\ Current'.at = "inbox" =>
                            hub'.waited = Current'.age /\ Current'.age <= MaxStall
                      /\ Current'.at # "inbox" =>
                            Current'.ttl = 0 \/ hub'.waited + Current'.ttl <= MaxStall + Ttl
    BY <1>2 DEF CallInv
  <2>1. /\ hub.call \in Ids /\ hub'.waited = hub.waited + 1 /\ hub.waited \in Nat
        /\ Current = req[hub.call] /\ Current' = req'[hub.call]
    BY <1>2, Types DEF Current
  <2>2. hub'.waited <= HubTimeout
    BY <1>1, <2>1
  <2>3. CASE req[hub.call].at = "inbox"
    BY <1>1, <1>2, <1>3, <2>1, <2>2, <2>3, Types DEF CallInv
  <2>4. CASE req[hub.call].at # "inbox"
    <3>1. Current'.ttl = 0 \/ hub'.waited + Current'.ttl <= MaxStall + Ttl
      <4>1. /\ req[hub.call].ttl \in Nat /\ req'[hub.call].ttl \in Nat
            /\ req[hub.call].at # "free"
            /\ req[hub.call].ttl = 0 \/ hub.waited + req[hub.call].ttl <= MaxStall + Ttl
        BY <1>6, <2>1, <2>4, Types DEF CallInv, TypeOK, Requests
      <4> QED
        BY <1>3, <2>1, <4>1
    <3> QED
      BY <1>2, <1>3, <2>1, <2>2, <2>4, <3>1 DEF CallInv
  <2> QED
    BY <2>3, <2>4
<1>9. OrphanInv'
  BY <1>2, <1>4, <1>5 DEF OrphanInv
<1>10. DrainInv'
  BY <1>1, <1>2, <1>3, <1>5, Types DEF DrainInv, Quiet, Current
<1>11. BeliefInv'
  BY <1>1, <1>2, <1>5 DEF BeliefInv, Quiet
<1>12. FreshInv'
  BY <1>1, <1>2, <1>3, Types DEF FreshInv, Current
<1> QED
  BY <1>6, <1>7, <1>8, <1>9, <1>10, <1>11, <1>12

LEMMA InvStep == ASSUME Prompt PROVE IInv /\ [Next]_vars => IInv'
<1> SUFFICES ASSUME IInv, [Next]_vars PROVE IInv'
  OBVIOUS
<1>1. CASE Next
  BY <1>1, StepCall, StepHubTimesOut, StepReject, StepValidate, StepStartupDrain, StepConnect,
     StepClientFails, StepRespond, StepBridgeRestarts, StepServeDrain, StepServeSupply,
     StepEnforce, StepDaemonRestarts, StepTick DEF Next
<1>2. CASE UNCHANGED vars
  <2>1. UNCHANGED <<req, backlog, hub, ready, valve, left>>
    BY <1>2 DEF vars
  <2>2. \A u \in Ids : Queued(u)' <=> Queued(u)
    BY <2>1 DEF Queued
  <2>3. \A u \in Ids : Armed(u)' <=> Armed(u)
    BY <2>1, <2>2 DEF Armed
  <2> QED
    BY <2>1, <2>2, <2>3
    DEF IInv, TypeOK, QueueInv, CallInv, OrphanInv, DrainInv, BeliefInv, FreshInv, Quiet, Current
<1> QED
  BY <1>1, <1>2

-----------------------------------------------------------------------------
(* Every variable stays within its type. *)
THEOREM TypeCorrectness == ASSUME Prompt PROVE Spec => []TypeOK
<1>1. IInv => TypeOK
  BY DEF IInv
<1> QED
  BY InvInit, InvStep, <1>1, PTL DEF Spec

(* No SUPPLY of an earlier call, wherever a timeout, a reset connection or *)
(* a restart has left it, opens the valve behind a confirmed DRAIN.        *)
THEOREM DrainOutlastsOrphans == ASSUME Prompt PROVE Spec => []ConfirmedDrainLasts
<1>1. IInv => ConfirmedDrainLasts
  BY DEF IInv, BeliefInv, Quiet, ConfirmedDrainLasts
<1> QED
  BY InvInit, InvStep, <1>1, PTL DEF Spec

(* A success the Hub is told of was granted within the call it was told    *)
(* in, so the rest of the lease is there to be counted on.                 *)
THEOREM SuccessIsOfThisCall == ASSUME Prompt PROVE Spec => ConfirmedLeaseIsFresh
<1>1. ASSUME IInv, [Next]_vars, hub.belief # "supplying", hub'.belief = "supplying",
             valve = "supply"
      PROVE  left >= Lease - HubTimeout
  <2>1. PICK id \in Ids, stderr \in BOOLEAN : Respond(id, stderr)
    <3>1. hub' # hub
      BY <1>1
    <3>2. hub'.belief # "unknown" /\ hub'.belief # hub.belief
      BY <1>1
    <3>3. \A id \in Ids, command \in Commands : ~Call(id, command)
      BY <3>2 DEF Call
    <3>4. ~HubTimesOut /\ ~BridgeRestarts
      BY <3>1, <3>2 DEF HubTimesOut, BridgeRestarts, Told
    <3>5. \A id \in Ids : ~Reject(id)
      BY <3>1, <3>2 DEF Reject, Receipt, Told
    <3>6. \A id \in Ids : ~(Validate(id) \/ StartupDrain(id) \/ Connect(id) \/ ClientFails(id))
      BY <3>1 DEF Validate, StartupDrain, Connect, ClientFails
    <3>7. ~(ServeDrain \/ ServeSupply \/ Enforce \/ DaemonRestarts)
      BY <3>1 DEF ServeDrain, ServeSupply, Replied, Enforce, DaemonRestarts
    <3>8. ~Tick
      <4>1. hub \in [call : Ids \cup {None}, waited : Nat,
                     belief : {"unknown", "drained", "supplying"}]
        BY <1>1 DEF IInv, TypeOK
      <4>2. Tick => hub'.belief = hub.belief
        BY <4>1 DEF Tick
      <4> QED
        BY <3>2, <4>2
    <3>9. Next
      BY <1>1, <3>1 DEF vars
    <3> QED
      BY Zenon, <3>3, <3>4, <3>5, <3>6, <3>7, <3>8, <3>9 DEF Next
  <2>2. /\ req[id].at = "answered" /\ hub.call = id /\ req[id].ok
        /\ req[id].command # "DRAIN"
    BY <1>1, <2>1 DEF Respond, Receipt, Told
  <2>3. left + hub.waited >= Lease /\ hub.waited <= HubTimeout
    BY <1>1, <2>2, BridgeAssumption DEF IInv, FreshInv, CallInv, Current
  <2> QED
    BY <1>1, <2>3, Types, BridgeAssumption DEF IInv
<1>2. IInv /\ [Next]_vars => [hub.belief # "supplying" /\ hub'.belief = "supplying"
                                 /\ valve = "supply" => left >= Lease - HubTimeout]_vars
  BY <1>1
<1> QED
  BY InvInit, InvStep, <1>2, PTL DEF Spec, ConfirmedLeaseIsFresh
=============================================================================
