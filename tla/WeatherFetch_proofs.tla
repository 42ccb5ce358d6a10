-------------------------- MODULE WeatherFetch_proofs --------------------------
(***************************************************************************)
(* WeatherFetch for any number of changes and all the times in it.         *)
(***************************************************************************)
EXTENDS WeatherFetch, TLAPS

(* The shapes of the variables; their bounds play no part here. *)
AnyRequest == [generation : Int, revision : Int, date : Int, offset : Int]
AnyObservation == [known : BOOLEAN, ok : BOOLEAN, window : AnyRequest,
                   warm : BOOLEAN, age : Int]
AnyCoordinator == [step : {"idle", "poll", "submit", "faulted", "closed"}, seen : Int,
                   generation : Int, obs : AnyObservation, refresh : Int, date : Int]
AnyWorker == [request : AnyRequest, result : Outcomes \cup {"none"}, of : AnyRequest,
              age : Int, discard : BOOLEAN, stopped : BOOLEAN, generation : Int]
AnyThread == [phase : {"none", "fetch", "publish", "wake"}, request : AnyRequest,
              outcome : Outcomes]

Shape ==
    /\ settings \in [on : BOOLEAN, revision : Int] /\ clock \in [date : Int, offset : Int]
    /\ coord \in AnyCoordinator /\ worker \in AnyWorker /\ thread \in AnyThread
    /\ refused \in AnyRequest

(* What the thread may still publish answers the request in the slot, and  *)
(* a result is there only once the thread has published.                   *)
Publishing == thread.phase \in {"fetch", "publish"}
SlotInv ==
    /\ worker.result # "none" => worker.of = worker.request /\ ~Publishing
    /\ worker.request = NoRequest => worker.result = "none"
    /\ Publishing => thread.request.generation >= 0
    /\ Publishing /\ ~worker.discard => thread.request = worker.request

(* A forecast with authority is of the current generation; a refused one   *)
(* is of an earlier.                                                       *)
GenerationInv ==
    /\ coord.generation >= 0 /\ refused.generation < coord.generation
    /\ coord.obs.ok => coord.obs.window.generation = coord.generation

IInv == Shape /\ SlotInv /\ GenerationInv

-----------------------------------------------------------------------------
LEMMA NoneFacts == NoRequest \in AnyRequest /\ NoRequest.generation = -1
                   /\ NoObservation \in AnyObservation /\ ~NoObservation.ok
  BY DEF NoRequest, NoObservation, AnyRequest, AnyObservation, none

LEMMA CancelledFacts ==
    ASSUME NEW w \in AnyWorker
    PROVE  /\ Cancelled(w) \in AnyWorker /\ Cancelled(w).request = NoRequest
           /\ Cancelled(w).result = "none" /\ Cancelled(w).discard
  BY NoneFacts DEF Cancelled, AnyWorker

LEMMA InvalidatedFacts ==
    ASSUME NEW c \in AnyCoordinator
    PROVE  /\ Invalidated(c) \in AnyCoordinator
           /\ Invalidated(c).generation = c.generation + 1
           /\ Invalidated(c).obs = NoObservation /\ Invalidated(c).step = c.step
<1> DEFINE g == c.generation + 1
<1>1. g \in Int /\ 0 \in Int /\ NoObservation \in AnyObservation
  BY NoneFacts DEF AnyCoordinator
<1>2. Invalidated(c) = [c EXCEPT !.generation = g, !.obs = NoObservation, !.refresh = 0]
  BY DEF Invalidated
<1> HIDE DEF g
<1>3. Invalidated(c) \in AnyCoordinator
  BY Zenon, <1>1, <1>2 DEF AnyCoordinator
<1> QED
  BY <1>3 DEF Invalidated, AnyCoordinator

(* poll empties the slot when it answers, and a fetch that is not through  *)
(* is not waited for any longer.                                           *)
LEMMA PollFacts ==
    ASSUME Shape, SlotInv
    PROVE  /\ AfterPoll(worker) \in AnyWorker
           /\ Polled(worker).of \in AnyRequest
           /\ Polled(worker).answer \in Outcomes \cup {"none"}
           /\ Good(Polled(worker).answer) => worker.age < FetchDeadline
           /\ AfterPoll(worker).result # "none" => AfterPoll(worker) = worker
           /\ AfterPoll(worker).request = NoRequest => AfterPoll(worker).result = "none"
           /\ Publishing /\ ~AfterPoll(worker).discard => AfterPoll(worker) = worker
<1> USE NoneFacts, FetchAssumption DEF Shape
<1>1. /\ Polled(worker).of \in AnyRequest
      /\ Polled(worker).answer \in Outcomes \cup {"none"}
      /\ Good(Polled(worker).answer) => worker.age < FetchDeadline
  BY DEF Polled, Overdue, AnyWorker, Outcomes, Good
<1>2. CASE Polled(worker).answer = "none"
  BY <1>1, <1>2 DEF AfterPoll, SlotInv
<1>3. CASE Polled(worker).answer # "none"
  <2>1. /\ AfterPoll(worker) \in AnyWorker
        /\ AfterPoll(worker).result = "none"
        /\ AfterPoll(worker).discard = (worker.discard \/ Overdue(worker))
    BY <1>3 DEF AfterPoll, AnyWorker, Overdue
  <2>2. Overdue(worker) \/ worker.result # "none"
    BY <1>3 DEF Polled
  <2> QED
    BY <1>1, <2>1, <2>2 DEF SlotInv
<1> QED
  BY <1>2, <1>3

(* eligibility, asked with the coordinator c and the worker w.  *)
LEMMA AnswerFacts ==
    ASSUME Shape, NEW c \in AnyCoordinator, NEW w \in AnyWorker,
           c.generation >= 0, refused.generation < c.generation,
           c.obs.ok => c.obs.window.generation = c.generation
    PROVE  /\ Answer(c, w).coord \in AnyCoordinator /\ Answer(c, w).worker \in AnyWorker
           /\ Answer(c, w).refused \in AnyRequest
           /\ Answer(c, w).coord.generation >= 0
           /\ Answer(c, w).refused.generation < Answer(c, w).coord.generation
           /\ Answer(c, w).coord.obs.ok =>
                 /\ Answer(c, w).coord.obs = c.obs
                 /\ c.obs.window.generation = Answer(c, w).coord.generation
           /\ Answer(c, w).worker \in {w, Cancelled(w)}
           /\ Answer(c, w).coord.step = c.step
<1>1. CASE ~Unfit(c.obs) /\ TimeBasisInvalid(c.obs)
  <2>1. Answer(c, w) = [coord |-> Invalidated(c), worker |-> Cancelled(w),
                        refused |-> c.obs.window]
    BY <1>1 DEF Answer
  <2>2. c.obs.ok /\ c.obs.window \in AnyRequest
    BY <1>1 DEF Unfit, AnyCoordinator, AnyObservation
  <2> QED
    BY <2>1, <2>2, InvalidatedFacts, CancelledFacts, NoneFacts DEF AnyCoordinator, AnyRequest
<1>2. CASE ~(~Unfit(c.obs) /\ TimeBasisInvalid(c.obs))
  <2>1. Answer(c, w) = [coord |-> c, worker |-> w, refused |-> refused]
    BY <1>2 DEF Answer
  <2> QED
    BY <2>1 DEF Shape
<1> QED
  BY <1>1, <1>2

(* A slot that was emptied, or left alone, satisfies SlotInv. *)
LEMMA SlotKept ==
    ASSUME Shape, SlotInv, UNCHANGED thread,
           worker' \in {worker, AfterPoll(worker), Cancelled(worker), Cancelled(AfterPoll(worker))}
    PROVE  SlotInv'
<1>1. worker \in AnyWorker /\ AfterPoll(worker) \in AnyWorker
  BY PollFacts DEF Shape
<1>2. CASE worker' \in {Cancelled(worker), Cancelled(AfterPoll(worker))}
  <2>1. worker'.request = NoRequest /\ worker'.result = "none" /\ worker'.discard
    BY <1>1, <1>2, CancelledFacts
  <2> QED
    BY <2>1 DEF SlotInv, Publishing
<1>3. CASE worker' = worker
  BY <1>3 DEF SlotInv, Publishing
<1>4. CASE worker' = AfterPoll(worker)
  BY <1>4, PollFacts DEF SlotInv, Publishing
<1> QED
  BY <1>2, <1>3, <1>4

-----------------------------------------------------------------------------
LEMMA InvInit == Init => IInv
<1> SUFFICES ASSUME Init PROVE IInv
  OBVIOUS
<1>1. Shape
  <2>1. settings \in [on : BOOLEAN, revision : Int] /\ clock \in [date : Int, offset : Int]
    BY DEF Init
  <2>2. coord \in AnyCoordinator
    BY NoneFacts DEF Init, AnyCoordinator, none
  <2>3. worker \in AnyWorker
    BY NoneFacts DEF Init, AnyWorker, none
  <2>4. thread \in AnyThread /\ refused \in AnyRequest
    BY NoneFacts DEF Init, AnyThread, Outcomes
  <2> QED
    BY <2>1, <2>2, <2>3, <2>4 DEF Shape
<1>2. SlotInv
  BY NoneFacts DEF Init, SlotInv, Publishing
<1>3. GenerationInv
  BY NoneFacts DEF Init, GenerationInv
<1> QED
  BY <1>1, <1>2, <1>3 DEF IInv

(* A tick up to its poll. *)
LEMMA StepTickBegins == IInv /\ TickBegins => IInv'
<1> SUFFICES ASSUME IInv, TickBegins PROVE IInv'
  OBVIOUS
<1> DEFINE stale == coord.seen # settings.revision
                    \/ (coord.date # none /\ coord.date # clock.date)
           c == IF stale THEN Invalidated(coord) ELSE coord
<1>1. /\ c \in AnyCoordinator /\ c.generation >= coord.generation
      /\ c.obs.ok => c.obs = coord.obs /\ c.generation = coord.generation
  BY InvalidatedFacts, NoneFacts DEF IInv, Shape, AnyCoordinator
<1>2. coord' = [c EXCEPT !.step = "poll", !.seen = settings.revision, !.date = clock.date]
  BY DEF TickBegins
<1>3. worker' \in {worker, Cancelled(worker)} /\ UNCHANGED <<settings, clock, thread, refused>>
  BY DEF TickBegins
<1> HIDE DEF c
<1>4. /\ coord' \in AnyCoordinator
      /\ coord'.generation = c.generation /\ coord'.obs = c.obs
  <2>1. settings.revision \in Int /\ clock.date \in Int
    BY DEF IInv, Shape
  <2> QED
    BY <1>1, <1>2, <2>1 DEF AnyCoordinator
<1>5. Shape'
  BY <1>3, <1>4, CancelledFacts DEF IInv, Shape
<1>6. SlotInv'
  BY <1>3, SlotKept DEF IInv
<1>7. GenerationInv'
  BY <1>1, <1>3, <1>4 DEF IInv, GenerationInv, Shape, AnyRequest, AnyCoordinator
<1> QED
  BY <1>5, <1>6, <1>7 DEF IInv

(* A tick's poll, and the question of eligibility that follows it. *)
LEMMA StepTickPolls ==
    ASSUME IInv, TickPolls
    PROVE  IInv' /\ (coord'.obs.ok /\ coord'.obs # coord.obs => coord'.obs.age < FetchDeadline)
<1> DEFINE result == Polled(worker)
           ours == /\ result.answer # "none"
                   /\ result.of.generation = coord.generation
                   /\ result.of.revision = settings.revision
           obs == IF ours THEN Observed(coord.obs, result, worker.age) ELSE coord.obs
           c == [coord EXCEPT !.obs = obs, !.step = "submit"]
           after == Answer(c, AfterPoll(worker))
<1>1. /\ coord' = after.coord /\ worker' = after.worker /\ refused' = after.refused
      /\ UNCHANGED <<settings, clock, thread>>
  BY DEF TickPolls
<1>2. /\ obs \in AnyObservation
      /\ obs.ok => obs.window.generation = coord.generation
      /\ obs.ok /\ obs # coord.obs => obs.age < FetchDeadline
  <2>1. /\ coord.obs \in AnyObservation /\ worker.age \in Int /\ coord.generation \in Int
        /\ coord.obs.ok => coord.obs.window.generation = coord.generation
    BY DEF IInv, Shape, AnyCoordinator, AnyWorker, GenerationInv
  <2>2. CASE ours /\ Good(result.answer)
    <3>1. obs = [known |-> TRUE, ok |-> TRUE, window |-> result.of,
                 warm |-> result.answer = "warm", age |-> worker.age]
      BY <2>2 DEF Observed
    <3>2. result.of \in AnyRequest /\ worker.age < FetchDeadline
      BY <2>2, PollFacts DEF IInv
    <3>3. (result.answer = "warm") \in BOOLEAN /\ result.of.generation = coord.generation
      BY <2>2
    <3> HIDE DEF result, ours
    <3>4. obs \in AnyObservation
      <4> HIDE DEF obs
      <4> QED
        BY <2>1, <3>1, <3>2, <3>3 DEF AnyObservation
    <3>5. obs.window = result.of /\ obs.age = worker.age
      BY <3>1
    <3> QED
      BY <3>2, <3>3, <3>4, <3>5
  <2>3. CASE ours /\ ~Good(result.answer)
    <3>1. obs = [coord.obs EXCEPT !.known = TRUE, !.ok = FALSE]
      BY <2>3 DEF Observed
    <3>2. obs \in AnyObservation
      BY Zenon, <2>1, <3>1 DEF AnyObservation
    <3>3. ~obs.ok
      BY <2>1, <3>1 DEF AnyObservation
    <3> QED
      BY <3>2, <3>3
  <2>4. CASE ~ours
    BY <2>1, <2>4
  <2> QED
    BY <2>2, <2>3, <2>4
<1> HIDE DEF obs
<1>3. /\ c \in AnyCoordinator /\ c.generation = coord.generation /\ c.obs = obs
  BY <1>2 DEF IInv, Shape, AnyCoordinator
<1> HIDE DEF c
<1>4. AfterPoll(worker) \in AnyWorker
  BY PollFacts DEF IInv
<1>5. /\ c.generation >= 0 /\ refused.generation < c.generation
      /\ c.obs.ok => c.obs.window.generation = c.generation
  BY <1>2, <1>3 DEF IInv, GenerationInv
<1>6. /\ after.coord \in AnyCoordinator /\ after.worker \in AnyWorker
      /\ after.refused \in AnyRequest
      /\ after.coord.generation >= 0
      /\ after.refused.generation < after.coord.generation
      /\ after.coord.obs.ok =>
            /\ after.coord.obs = c.obs
            /\ c.obs.window.generation = after.coord.generation
      /\ after.worker \in {AfterPoll(worker), Cancelled(AfterPoll(worker))}
  BY <1>3, <1>4, <1>5, AnswerFacts DEF IInv
<1> HIDE DEF after
<1>7. Shape'
  BY <1>1, <1>6 DEF IInv, Shape
<1>8. SlotInv'
  BY <1>1, <1>6, SlotKept DEF IInv
<1>9. GenerationInv'
  BY <1>1, <1>6 DEF GenerationInv
<1> QED
  BY <1>1, <1>2, <1>3, <1>6, <1>7, <1>8, <1>9 DEF IInv

(* A tick's submission: the thread has ended, so nothing can publish.  *)
LEMMA StepTickSubmits == IInv /\ TickSubmits => IInv'
<1> SUFFICES ASSUME IInv, TickSubmits PROVE IInv'
  OBVIOUS
<1> USE FetchAssumption
<1>1. /\ coord' \in AnyCoordinator /\ coord'.generation = coord.generation
      /\ coord'.obs = coord.obs /\ UNCHANGED <<settings, clock, refused>>
  <2>1. coord \in AnyCoordinator /\ RefreshSeconds \in Int /\ UNCHANGED <<settings, clock, refused>>
    BY DEF TickSubmits, IInv, Shape
  <2>2. CASE coord' = [coord EXCEPT !.step = "idle", !.refresh = RefreshSeconds]
    BY <2>1, <2>2 DEF AnyCoordinator
  <2>3. CASE coord' = [coord EXCEPT !.step = "idle"]
    BY <2>1, <2>3 DEF AnyCoordinator
  <2> QED
    BY <2>1, <2>2, <2>3 DEF TickSubmits, Submission, NoSubmission
<1>2. GenerationInv'
  BY <1>1 DEF IInv, GenerationInv
<1>3. CASE Accepts(worker, Now) /\ worker' = Submitted(worker, Now)
           /\ thread' = [phase |-> "fetch", request |-> Now, outcome |-> "failed"]
  <2>1. Now \in AnyRequest /\ Now.generation >= 0
    BY DEF Now, IInv, Shape, GenerationInv, AnyCoordinator, AnyRequest
  <2>2. worker.request = NoRequest /\ worker.result = "none"
    BY <1>3 DEF Accepts, IInv, SlotInv
  <2>3. /\ worker' \in AnyWorker /\ worker'.request = Now /\ worker'.result = "none"
        /\ ~worker'.discard
    <3>1. /\ worker' = [worker EXCEPT !.request = Now, !.age = 0, !.discard = FALSE,
                                       !.generation = Now.generation]
          /\ Now.generation \in Int /\ 0 \in Int
      BY <1>3, <2>1 DEF Submitted, AnyRequest
    <3>2. worker \in AnyWorker
      BY DEF IInv, Shape
    <3>3. worker' \in AnyWorker
      BY Zenon, <2>1, <3>1, <3>2 DEF AnyWorker
    <3> QED
      BY <1>3, <2>2, <3>3 DEF Submitted, IInv, Shape, AnyWorker
  <2>4. thread' \in AnyThread /\ thread'.request = Now
    BY <1>3, <2>1 DEF AnyThread, Outcomes
  <2>5. Shape'
    BY <1>1, <2>3, <2>4 DEF IInv, Shape
  <2>6. SlotInv'
    BY <2>1, <2>3, <2>4 DEF SlotInv
  <2> QED
    BY <1>2, <2>5, <2>6 DEF IInv
<1>4. CASE UNCHANGED <<worker, thread>>
  BY <1>1, <1>2, <1>4 DEF IInv, Shape, SlotInv, Publishing
<1> QED
  BY <1>3, <1>4 DEF TickSubmits, Submission, Submits, NoSubmission

LEMMA StepSubmitFails == IInv /\ SubmitFails => IInv'
<1> SUFFICES ASSUME IInv, SubmitFails PROVE IInv'
  OBVIOUS
<1>1. /\ coord' = [coord EXCEPT !.step = "faulted"] /\ Accepts(worker, Now)
      /\ worker' = [Submitted(worker, Now) EXCEPT !.request = NoRequest]
      /\ UNCHANGED <<settings, clock, thread, refused>>
  BY DEF SubmitFails, Submits
<1>2. /\ coord' \in AnyCoordinator /\ coord'.generation = coord.generation
      /\ coord'.obs = coord.obs
  BY <1>1 DEF IInv, Shape, AnyCoordinator
<1>3. worker.result = "none" /\ ~Publishing
  BY <1>1 DEF Accepts, IInv, SlotInv, Publishing
<1>4. worker' \in AnyWorker /\ worker'.request = NoRequest /\ worker'.result = "none"
  <2>1. worker \in AnyWorker /\ coord.generation \in Int /\ Now.generation = coord.generation
    BY DEF Now, IInv, Shape, AnyCoordinator
  <2>2. worker' = [worker EXCEPT !.request = NoRequest, !.age = 0, !.discard = FALSE,
                                 !.generation = coord.generation]
    BY <1>1, <2>1 DEF Submitted, AnyWorker
  <2>3. worker' \in AnyWorker
    <3>1. 0 \in Int /\ FALSE \in BOOLEAN /\ NoRequest \in AnyRequest
      BY NoneFacts
    <3> QED
      BY Zenon, <2>1, <2>2, <3>1 DEF AnyWorker
  <2> QED
    BY <1>3, <2>1, <2>2, <2>3 DEF AnyWorker
<1>5. Shape'
  BY <1>1, <1>2, <1>4 DEF IInv, Shape
<1>6. SlotInv'
  BY <1>1, <1>3, <1>4 DEF SlotInv, Publishing
<1> QED
  BY <1>1, <1>2, <1>5, <1>6 DEF IInv, GenerationInv

LEMMA StepAsk == IInv /\ Ask => IInv'
<1> SUFFICES ASSUME IInv, Ask PROVE IInv'
  OBVIOUS
<1> DEFINE after == Answer(coord, worker)
<1>1. /\ coord' = after.coord /\ worker' = after.worker /\ refused' = after.refused
      /\ UNCHANGED <<settings, clock, thread>>
  BY DEF Ask
<1>2. /\ after.coord \in AnyCoordinator /\ after.worker \in AnyWorker
      /\ after.refused \in AnyRequest
      /\ after.coord.generation >= 0
      /\ after.refused.generation < after.coord.generation
      /\ after.coord.obs.ok =>
            /\ after.coord.obs = coord.obs
            /\ coord.obs.window.generation = after.coord.generation
      /\ after.worker \in {worker, Cancelled(worker)}
  BY AnswerFacts DEF IInv, Shape, GenerationInv
<1> HIDE DEF after
<1>3. Shape'
  BY <1>1, <1>2 DEF IInv, Shape
<1>4. SlotInv'
  BY <1>1, <1>2, SlotKept DEF IInv
<1>5. GenerationInv'
  BY <1>1, <1>2 DEF GenerationInv
<1> QED
  BY <1>3, <1>4, <1>5 DEF IInv

(* New settings and shutdown drop the forecast and cancel the fetch. *)
LEMMA StepUpdateSettings == ASSUME IInv, NEW on \in BOOLEAN, UpdateSettings(on) PROVE IInv'
<1>1. /\ settings' \in [on : BOOLEAN, revision : Int] /\ worker' = Cancelled(worker)
      /\ UNCHANGED <<clock, thread, refused>>
  BY DEF UpdateSettings, IInv, Shape
<1>2. /\ coord' \in AnyCoordinator /\ coord'.generation = coord.generation + 1
      /\ ~coord'.obs.ok
  <2>1. coord' = [Invalidated(coord) EXCEPT !.seen = settings'.revision, !.date = none]
    BY DEF UpdateSettings
  <2>2. settings'.revision \in Int /\ none \in Int
    BY <1>1 DEF none
  <2>3. /\ Invalidated(coord) \in AnyCoordinator
        /\ Invalidated(coord).generation = coord.generation + 1
        /\ ~Invalidated(coord).obs.ok
    BY InvalidatedFacts, NoneFacts DEF IInv, Shape
  <2> QED
    BY <2>1, <2>2, <2>3 DEF AnyCoordinator
<1>3. Shape'
  BY <1>1, <1>2, CancelledFacts DEF IInv, Shape
<1>4. SlotInv'
  BY <1>1, SlotKept DEF IInv
<1>5. GenerationInv'
  BY <1>1, <1>2 DEF IInv, GenerationInv, Shape, AnyCoordinator, AnyRequest
<1> QED
  BY <1>3, <1>4, <1>5 DEF IInv

LEMMA StepStop == IInv /\ Stop => IInv'
<1> SUFFICES ASSUME IInv, Stop PROVE IInv'
  OBVIOUS
<1>1. /\ coord' = [Invalidated(coord) EXCEPT !.step = "closed"]
      /\ worker' = [Cancelled(worker) EXCEPT !.stopped = TRUE]
      /\ UNCHANGED <<settings, clock, thread, refused>>
  BY DEF Stop
<1>2. /\ coord' \in AnyCoordinator /\ coord'.generation = coord.generation + 1
      /\ ~coord'.obs.ok
  <2>1. /\ Invalidated(coord) \in AnyCoordinator
        /\ Invalidated(coord).generation = coord.generation + 1
        /\ ~Invalidated(coord).obs.ok
    BY InvalidatedFacts, NoneFacts DEF IInv, Shape
  <2> QED
    BY <1>1, <2>1 DEF AnyCoordinator
<1>3. /\ worker' \in AnyWorker /\ worker'.request = NoRequest
      /\ worker'.result = "none" /\ worker'.discard
  <2>1. /\ Cancelled(worker) \in AnyWorker /\ Cancelled(worker).request = NoRequest
        /\ Cancelled(worker).result = "none" /\ Cancelled(worker).discard
    BY CancelledFacts DEF IInv, Shape
  <2> QED
    BY <1>1, <2>1 DEF AnyWorker
<1>4. Shape'
  BY <1>1, <1>2, <1>3 DEF IInv, Shape
<1>5. SlotInv'
  BY <1>1, <1>3 DEF IInv, SlotInv, Publishing
<1>6. GenerationInv'
  BY <1>1, <1>2 DEF IInv, GenerationInv, Shape, AnyCoordinator, AnyRequest
<1> QED
  BY <1>4, <1>5, <1>6 DEF IInv

(* The fetch thread. *)
LEMMA StepFetchEnds ==
    ASSUME IInv, NEW outcome \in {"warm", "cold", "failed"}, FetchEnds(outcome)
    PROVE  IInv'
<1>1. /\ thread' \in AnyThread /\ thread'.request = thread.request
      /\ Publishing /\ Publishing' /\ UNCHANGED <<settings, clock, coord, worker, refused>>
  BY DEF FetchEnds, IInv, Shape, AnyThread, Outcomes, Publishing
<1> QED
  BY <1>1 DEF IInv, Shape, SlotInv, GenerationInv

LEMMA StepPublish == IInv /\ Publish => IInv'
<1> SUFFICES ASSUME IInv, Publish PROVE IInv'
  OBVIOUS
<1>1. /\ thread' \in AnyThread /\ ~Publishing' /\ Publishing
      /\ UNCHANGED <<settings, clock, coord, refused>>
  BY DEF Publish, IInv, Shape, AnyThread, Publishing
<1>2. GenerationInv'
  BY <1>1 DEF IInv, GenerationInv
<1>3. CASE worker' = worker
  BY <1>1, <1>2, <1>3 DEF IInv, Shape, SlotInv
<1>4. CASE /\ ~worker.discard
           /\ worker' = [worker EXCEPT !.of = thread.request,
                           !.result = IF Overdue(worker) THEN "deadline_exceeded"
                                      ELSE thread.outcome]
  <2>1. thread.request \in AnyRequest /\ thread.outcome \in Outcomes
    BY DEF IInv, Shape, AnyThread
  <2>2. thread.request = worker.request /\ worker.request # NoRequest
    BY <1>1, <1>4, <2>1, NoneFacts DEF IInv, SlotInv, AnyRequest
  <2>3. /\ worker' \in AnyWorker /\ worker'.of = thread.request
        /\ worker'.request = worker.request
    BY <1>4, <2>1 DEF IInv, Shape, AnyWorker, Outcomes
  <2> QED
    BY <1>1, <1>2, <2>2, <2>3 DEF IInv, Shape, SlotInv
<1> QED
  BY <1>3, <1>4 DEF Publish

LEMMA StepWake == IInv /\ Wake => IInv'
<1> SUFFICES ASSUME IInv, Wake PROVE IInv'
  OBVIOUS
<1>1. /\ thread' \in AnyThread /\ ~Publishing'
      /\ UNCHANGED <<settings, clock, coord, worker, refused>>
  BY NoneFacts DEF Wake, AnyThread, Publishing, Outcomes
<1>2. ~Publishing
  BY DEF Wake, Publishing
<1> QED
  BY <1>1, <1>2 DEF IInv, Shape, SlotInv, GenerationInv

(* Time and the clock. *)
LEMMA StepTimePasses == IInv /\ TimePasses => IInv'
<1> SUFFICES ASSUME IInv, TimePasses PROVE IInv'
  OBVIOUS
<1> USE FetchAssumption
<1>1. /\ coord' = [coord EXCEPT !.refresh = IF @ > 0 THEN @ - 1 ELSE @,
                     !.obs.age = IF coord.obs.ok THEN Older(@, MaxAge) ELSE @]
      /\ worker' = [worker EXCEPT !.age = Older(@, RefreshSeconds)]
      /\ UNCHANGED <<settings, clock, thread, refused>>
  BY DEF TimePasses
<1>2. ASSUME NEW a \in Int, NEW b \in Int PROVE Older(a, b) \in Int
  BY DEF Older
<1>3. /\ coord' \in AnyCoordinator /\ coord'.generation = coord.generation
      /\ coord'.obs.ok = coord.obs.ok /\ coord'.obs.window = coord.obs.window
  <2> DEFINE o == [coord.obs EXCEPT !.age = IF coord.obs.ok THEN Older(@, MaxAge) ELSE @]
             r == IF coord.refresh > 0 THEN coord.refresh - 1 ELSE coord.refresh
  <2>1. coord.obs \in AnyObservation /\ coord \in AnyCoordinator
    BY DEF IInv, Shape, AnyCoordinator
  <2>2. o \in AnyObservation /\ o.ok = coord.obs.ok /\ o.window = coord.obs.window
    BY <1>2, <2>1 DEF AnyObservation
  <2>3. r \in Int
    BY <2>1 DEF AnyCoordinator
  <2>4. coord' = [coord EXCEPT !.refresh = r, !.obs = o]
    BY <1>1, <2>1 DEF AnyCoordinator, AnyObservation
  <2> HIDE DEF o, r
  <2> QED
    BY <2>1, <2>2, <2>3, <2>4 DEF AnyCoordinator
<1>4. /\ worker' \in AnyWorker /\ worker'.request = worker.request
      /\ worker'.result = worker.result /\ worker'.of = worker.of
      /\ worker'.discard = worker.discard
  BY <1>1, <1>2 DEF IInv, Shape, AnyWorker
<1> QED
  BY <1>1, <1>3, <1>4 DEF IInv, Shape, SlotInv, GenerationInv, Publishing

LEMMA StepClockChanges == IInv /\ ClockChanges => IInv'
<1> SUFFICES ASSUME IInv, ClockChanges PROVE IInv'
  OBVIOUS
<1>1. clock' \in [date : Int, offset : Int] /\ UNCHANGED <<settings, coord, worker, thread, refused>>
  BY DEF ClockChanges, IInv, Shape
<1> QED
  BY <1>1 DEF IInv, Shape, SlotInv, GenerationInv, Publishing

LEMMA InvStep == IInv /\ [Next]_vars => IInv'
<1> SUFFICES ASSUME IInv, [Next]_vars PROVE IInv'
  OBVIOUS
<1>1. CASE UNCHANGED vars
  BY <1>1 DEF vars, IInv, Shape, SlotInv, GenerationInv, Publishing
<1>2. CASE Next
  BY <1>2, StepTickBegins, StepTickPolls, StepTickSubmits, StepSubmitFails, StepAsk, StepUpdateSettings,
     StepStop, StepFetchEnds, StepPublish, StepWake, StepTimePasses, StepClockChanges DEF Next
<1> QED
  BY <1>1, <1>2

-----------------------------------------------------------------------------
(* A result that waits to be polled answers the request in the slot: the   *)
(* thread of a fetch that was cancelled or given up never leaves its own.  *)
THEOREM ResultsAreForTheSlot == Spec => []ResultAnswersRequest
<1>1. IInv => ResultAnswersRequest
  BY DEF IInv, SlotInv, ResultAnswersRequest
<1> QED
  BY InvInit, InvStep, <1>1, PTL DEF Spec

(* A forecast refused for its time basis is never again eligible: what is  *)
(* eligible is of the current generation, and a refusal ends a generation. *)
THEOREM RefusalIsFinal == Spec => []RefusedStaysRefused
<1>1. IInv => RefusedStaysRefused
  BY DEF IInv, GenerationInv, Shape, RefusedStaysRefused, Eligible, Unfit, AnyRequest,
     AnyCoordinator
<1> QED
  BY InvInit, InvStep, <1>1, PTL DEF Spec

(* A fetch that ends or is polled at its deadline or later gives no        *)
(* authority.                                                              *)
THEOREM LateIsFailed == Spec => LateNeverSucceeds
<1>1. ASSUME IInv, [Next]_vars, coord.step = "poll", coord'.obs.ok, coord'.obs # coord.obs
      PROVE  coord'.obs.age < FetchDeadline
  <2>1. TickPolls
    BY <1>1 DEF Next, vars, TickBegins, TickSubmits, SubmitFails, Ask, UpdateSettings, Stop, FetchEnds,
       BetweenTicks, Publish, Wake, TimePasses, ClockChanges
  <2> QED
    BY <1>1, <2>1, StepTickPolls
<1>2. IInv /\ [Next]_vars => [coord.step = "poll" /\ coord'.obs.ok /\ coord'.obs # coord.obs
                                 => coord'.obs.age < FetchDeadline]_vars
  BY <1>1
<1> QED
  BY InvInit, InvStep, <1>2, PTL DEF Spec, LateNeverSucceeds

-----------------------------------------------------------------------------
(* What may still end a generation, and the pace of the requests. *)

One(p) == IF p THEN 1 ELSE 0

(* The next tick will find the settings or the date changed. *)
StaleTick == coord.seen # settings.revision
             \/ (coord.date # none /\ coord.date # clock.date)

(* The forecast, or the one being fetched, has an invalid time basis. *)
StaleBasis ==
    \/ coord.obs.ok /\ TimeBasisInvalid(coord.obs)
    \/ /\ worker.request # NoRequest /\ worker.request.generation = coord.generation
       /\ worker.request.offset # clock.offset

(* A change is found at most twice, by a tick and by eligibility; startup, *)
(* the first tick and the shutdown invalidate once each.                   *)
Budget ==
    /\ settings.revision <= changes /\ clock.date <= changes
    /\ coord.generation + One(StaleTick) + One(StaleBasis) + One(coord.step # "closed")
         <= 2 * changes + 3

(* Within a generation, what is left of the refresh interval is what the   *)
(* last submission's age lacks of it, as long as the thread was started.   *)
Pace ==
    /\ worker.generation <= coord.generation
    /\ worker.generation = coord.generation /\ coord.step # "faulted"
          => worker.age + coord.refresh >= RefreshSeconds

Bounds == TypeOK /\ Budget /\ Pace

LEMMA BoundFacts ==
    /\ NoRequest \in Requests /\ NoObservation \in Observations
    /\ Requests \subseteq AnyRequest /\ Observations \subseteq AnyObservation
  BY FetchAssumption DEF NoRequest, NoObservation, Requests, Observations, AnyRequest,
     AnyObservation, Generations, Revisions, none

LEMMA OneFacts == ASSUME NEW p PROVE One(p) \in {0, 1} /\ (p => One(p) = 1) /\ (~p => One(p) = 0)
  BY DEF One

LEMMA FieldsOfCoord ==
    ASSUME NEW c \in Coordinators
    PROVE  /\ c.step \in {"idle", "poll", "submit", "faulted", "closed"} /\ c.seen \in none..MaxChanges
           /\ c.generation \in Generations /\ c.obs \in Observations
           /\ c.refresh \in 0..RefreshSeconds /\ c.date \in none..MaxChanges
           /\ c.obs.window \in Requests
  BY DEF Coordinators, Observations

LEMMA FieldsOfWorker ==
    ASSUME NEW w \in Workers
    PROVE  /\ w.request \in Requests /\ w.result \in Outcomes \cup {"none"} /\ w.of \in Requests
           /\ w.age \in 0..RefreshSeconds /\ w.discard \in BOOLEAN /\ w.stopped \in BOOLEAN
           /\ w.generation \in Generations
  BY DEF Workers

(* A generation that may be counted to is one of the Generations. *)
LEMMA GenerationBound ==
    ASSUME NEW g \in Int, NEW n \in 0..MaxChanges, -1 <= g, g <= 2 * n + 3
    PROVE  g \in Generations
  BY FetchAssumption DEF Generations, none

LEMMA CancelledBounds ==
    ASSUME NEW w \in Workers
    PROVE  /\ Cancelled(w) \in Workers /\ Cancelled(w).request = NoRequest
           /\ Cancelled(w).age = w.age /\ Cancelled(w).generation = w.generation
  BY BoundFacts DEF Cancelled, Workers

LEMMA InvalidatedBounds ==
    ASSUME NEW c \in Coordinators, c.generation + 1 \in Generations
    PROVE  /\ Invalidated(c) \in Coordinators
           /\ Invalidated(c).generation = c.generation + 1
           /\ Invalidated(c).obs = NoObservation /\ Invalidated(c).refresh = 0
           /\ Invalidated(c).step = c.step /\ Invalidated(c).seen = c.seen
           /\ Invalidated(c).date = c.date
<1> DEFINE g == c.generation + 1
<1>1. 0 \in 0..RefreshSeconds
  BY FetchAssumption
<1>2. Invalidated(c) = [c EXCEPT !.generation = g, !.obs = NoObservation, !.refresh = 0]
  BY DEF Invalidated
<1>3. g \in Generations
  OBVIOUS
<1> HIDE DEF g
<1>4. Invalidated(c) \in Coordinators
  BY Zenon, <1>1, <1>2, <1>3, BoundFacts DEF Coordinators
<1> QED
  BY <1>4 DEF Invalidated, Coordinators

(* poll answers for the request in the slot, and empties it or leaves it.  *)
LEMMA PollBounds ==
    ASSUME TypeOK, SlotInv
    PROVE  /\ AfterPoll(worker) \in Workers
           /\ AfterPoll(worker).request \in {worker.request, NoRequest}
           /\ AfterPoll(worker).age = worker.age
           /\ AfterPoll(worker).generation = worker.generation
           /\ Polled(worker).answer # "none" =>
                 Polled(worker).of = worker.request /\ worker.request # NoRequest
<1>1. worker \in Workers
  BY DEF TypeOK
<1>2. Polled(worker).answer # "none" =>
         Polled(worker).of = worker.request /\ worker.request # NoRequest
  BY DEF Polled, SlotInv
<1>3. /\ AfterPoll(worker) \in Workers
      /\ AfterPoll(worker).request \in {worker.request, NoRequest}
      /\ AfterPoll(worker).age = worker.age
      /\ AfterPoll(worker).generation = worker.generation
  BY <1>1, BoundFacts DEF AfterPoll, Workers, Overdue
<1> QED
  BY <1>2, <1>3

(* eligibility does nothing, or ends the generation of the forecast.  *)
LEMMA AnswerCases ==
    ASSUME NEW c, NEW w
    PROVE  \/ /\ c.obs.ok /\ TimeBasisInvalid(c.obs)
              /\ Answer(c, w) = [coord |-> Invalidated(c), worker |-> Cancelled(w),
                                 refused |-> c.obs.window]
           \/ Answer(c, w) = [coord |-> c, worker |-> w, refused |-> refused]
  BY DEF Answer, Unfit

(* The budget when nothing new is stale, and when a generation ends over   *)
(* something that was.                                                     *)
LEMMA BudgetUntouched ==
    ASSUME Shape, Shape', Budget, UNCHANGED <<settings, changes>>, clock'.date = clock.date,
           changes \in Int, coord'.generation = coord.generation,
           StaleTick' => StaleTick, StaleBasis' => StaleBasis,
           coord.step = "closed" => coord'.step = "closed"
    PROVE  Budget'
<1>1. coord.generation \in Int
  BY DEF Shape, AnyCoordinator
<1>2. /\ One(StaleTick)' <= One(StaleTick) /\ One(StaleBasis)' <= One(StaleBasis)
      /\ One(coord.step # "closed")' <= One(coord.step # "closed")
      /\ One(StaleTick) \in Int /\ One(StaleBasis) \in Int /\ One(coord.step # "closed") \in Int
      /\ One(StaleTick)' \in Int /\ One(StaleBasis)' \in Int /\ One(coord.step # "closed")' \in Int
  BY DEF One
<1> QED
  BY <1>1, <1>2 DEF Budget

LEMMA BudgetSpent ==
    ASSUME Shape, Shape', Budget, UNCHANGED <<settings, clock, changes>>,
           changes \in Int, coord'.generation = coord.generation + 1,
           StaleTick' => StaleTick, ~StaleBasis',
           StaleBasis \/ (StaleTick /\ ~StaleTick'),
           coord.step = "closed" <=> coord'.step = "closed"
    PROVE  Budget'
<1>1. coord.generation \in Int
  BY DEF Shape, AnyCoordinator
<1>2. /\ One(StaleTick)' + One(StaleBasis)' + 1 <= One(StaleTick) + One(StaleBasis)
      /\ One(coord.step # "closed")' = One(coord.step # "closed")
      /\ One(StaleTick) \in Int /\ One(StaleBasis) \in Int /\ One(coord.step # "closed") \in Int
      /\ One(StaleTick)' \in Int /\ One(StaleBasis)' \in Int
  BY DEF One
<1> QED
  BY <1>1, <1>2 DEF Budget

(* What the budget leaves room for. *)
LEMMA Affordable ==
    ASSUME Shape, GenerationInv, Budget, changes \in 0..MaxChanges
    PROVE  /\ StaleTick \/ StaleBasis \/ coord.step # "closed" => coord.generation + 1 \in Generations
           /\ coord.step # "closed" => coord.generation <= 2 * changes + 2
<1>1. coord.generation \in Int /\ coord.generation >= 0
  BY DEF Shape, AnyCoordinator, GenerationInv
<1>2. /\ One(StaleTick) \in {0, 1} /\ One(StaleBasis) \in {0, 1}
      /\ One(coord.step # "closed") \in {0, 1}
      /\ StaleTick => One(StaleTick) = 1
      /\ StaleBasis => One(StaleBasis) = 1
      /\ coord.step # "closed" => One(coord.step # "closed") = 1
  BY DEF One
<1>3. StaleTick \/ StaleBasis \/ coord.step # "closed" => coord.generation + 1 <= 2 * changes + 3
  BY <1>1, <1>2 DEF Budget
<1>4. coord.step # "closed" => coord.generation <= 2 * changes + 2
  BY <1>1, <1>2 DEF Budget
<1>5. coord.generation + 1 <= 2 * changes + 3 => coord.generation + 1 \in Generations
  BY <1>1, GenerationBound
<1> QED
  BY <1>3, <1>4, <1>5

LEMMA BoundsInit == Init => Bounds
<1> SUFFICES ASSUME Init PROVE Bounds
  OBVIOUS
<1> USE FetchAssumption, BoundFacts
<1>1. 0 \in Revisions /\ 1 \in Generations /\ none \in Generations /\ none \in none..MaxChanges
      /\ 0 \in 0..RefreshSeconds /\ 0 \in 0..MaxChanges
  BY DEF Revisions, Generations, none
<1>2. TypeOK
  <2>1. settings \in [on : BOOLEAN, revision : Revisions] /\ clock \in [date : Revisions, offset : {0, 1}]
    BY <1>1 DEF Init
  <2>2. coord \in Coordinators /\ worker \in Workers
    BY <1>1 DEF Init, Coordinators, Workers
  <2>3. thread \in Threads /\ refused \in Requests /\ changes \in 0..MaxChanges
    BY <1>1 DEF Init, Threads, Outcomes
  <2> QED
    BY <2>1, <2>2, <2>3 DEF TypeOK
<1>3. Budget
  <2>1. ~StaleBasis
    BY NoneFacts DEF Init, StaleBasis
  <2>2. One(StaleTick) \in {0, 1} /\ One(coord.step # "closed") \in {0, 1} /\ One(StaleBasis) = 0
    BY <2>1 DEF One
  <2> QED
    BY <2>2 DEF Init, Budget
<1>4. Pace
  BY DEF Init, Pace, none
<1> QED
  BY <1>2, <1>3, <1>4 DEF Bounds

(* A tick up to its poll. *)
LEMMA BoundsTickBegins == ASSUME IInv, IInv', Bounds, TickBegins PROVE Bounds'
<1>1. /\ coord \in Coordinators /\ worker \in Workers /\ changes \in 0..MaxChanges
      /\ changes \in Int /\ settings.revision \in none..MaxChanges
      /\ clock.date \in none..MaxChanges
  BY FetchAssumption DEF Bounds, TypeOK, Revisions, none
<1>2. UNCHANGED <<settings, clock, thread, refused, changes>>
  BY DEF TickBegins
<1>3. ASSUME NEW c \in Coordinators,
             coord' = [c EXCEPT !.step = "poll", !.seen = settings.revision, !.date = clock.date]
      PROVE  /\ coord' \in Coordinators /\ coord'.generation = c.generation /\ coord'.obs = c.obs
             /\ coord'.refresh = c.refresh /\ ~StaleTick' /\ coord'.step = "poll"
  <2>1. coord' \in Coordinators
    BY Zenon, <1>1, <1>3 DEF Coordinators
  <2> QED
    BY <1>2, <1>3, <2>1 DEF Coordinators, StaleTick
<1>4. coord.step # "closed" /\ coord.step # "faulted"
  BY DEF TickBegins
<1>5. CASE StaleTick
  <2>1. coord' = [Invalidated(coord) EXCEPT !.step = "poll", !.seen = settings.revision,
                                            !.date = clock.date]
        /\ worker' = Cancelled(worker)
    BY <1>5 DEF TickBegins, StaleTick
  <2>2. coord.generation + 1 \in Generations
    BY <1>1, <1>4, Affordable DEF Bounds, IInv
  <2>3. /\ coord' \in Coordinators /\ coord'.generation = coord.generation + 1
        /\ coord'.obs = NoObservation /\ ~StaleTick' /\ coord'.step = "poll"
    BY Zenon, <1>1, <1>3, <2>1, <2>2, InvalidatedBounds
  <2>4. worker' \in Workers /\ worker'.request = NoRequest /\ worker'.generation = worker.generation
    BY <1>1, <2>1, CancelledBounds
  <2>5. ~StaleBasis'
    BY <2>3, <2>4, NoneFacts DEF StaleBasis
  <2>6. Budget'
    BY <1>1, <1>2, <1>4, <1>5, <2>3, <2>5, BudgetSpent DEF IInv, Bounds
  <2>7. Pace'
    BY <1>1, <2>3, <2>4 DEF Bounds, Pace, IInv, Shape, AnyCoordinator, AnyWorker
  <2> QED
    BY <1>2, <2>3, <2>4, <2>6, <2>7 DEF Bounds, TypeOK
<1>6. CASE ~StaleTick
  <2>1. coord' = [coord EXCEPT !.step = "poll", !.seen = settings.revision, !.date = clock.date]
        /\ worker' = worker
    BY <1>6 DEF TickBegins, StaleTick
  <2>2. /\ coord' \in Coordinators /\ coord'.generation = coord.generation
        /\ coord'.obs = coord.obs /\ coord'.refresh = coord.refresh /\ ~StaleTick'
    BY Zenon, <1>1, <1>3, <2>1
  <2>3. StaleBasis' => StaleBasis
    BY <1>2, <2>1, <2>2 DEF StaleBasis, TimeBasisInvalid
  <2>4. Budget'
    BY <1>1, <1>2, <1>4, <2>2, <2>3, BudgetUntouched DEF IInv, Bounds
  <2>5. Pace'
    BY <1>4, <2>1, <2>2 DEF Bounds, Pace
  <2> QED
    BY <1>2, <2>1, <2>2, <2>4, <2>5 DEF Bounds, TypeOK
<1> QED
  BY <1>5, <1>6

(* eligibility, asked of the observation the coordinator has or has just   *)
(* polled, in a step that changes nothing else.                            *)
LEMMA BoundsAnswer ==
    ASSUME IInv, IInv', Bounds, NEW c \in Coordinators, NEW w \in Workers,
           coord' = Answer(c, w).coord, worker' = Answer(c, w).worker,
           refused' = Answer(c, w).refused, UNCHANGED <<settings, clock, thread, changes>>,
           c.generation = coord.generation, c.seen = coord.seen, c.date = coord.date,
           c.refresh = coord.refresh, c.step # "closed", coord.step # "closed",
           coord.step = "faulted" => c.step = "faulted",
           w.request \in {worker.request, NoRequest}, w.age = worker.age,
           w.generation = worker.generation,
           c.obs.ok => \/ c.obs = coord.obs
                       \/ /\ worker.request # NoRequest
                          /\ worker.request.generation = coord.generation
                          /\ c.obs.window = worker.request
    PROVE  Bounds'
<1>1. /\ changes \in 0..MaxChanges /\ changes \in Int /\ c.obs.window \in Requests
      /\ refused \in Requests
  BY FetchAssumption, FieldsOfCoord DEF Bounds, TypeOK
<1>2. CASE /\ c.obs.ok /\ TimeBasisInvalid(c.obs)
           /\ Answer(c, w) = [coord |-> Invalidated(c), worker |-> Cancelled(w),
                              refused |-> c.obs.window]
  <2>1. coord' = Invalidated(c) /\ worker' = Cancelled(w) /\ refused' = c.obs.window
    BY <1>2
  <2>2. StaleBasis
    BY <1>2 DEF StaleBasis, TimeBasisInvalid
  <2>3. c.generation + 1 \in Generations
    BY <1>1, <2>2, Affordable DEF Bounds, IInv
  <2>4. /\ coord' \in Coordinators /\ coord'.generation = coord.generation + 1
        /\ coord'.obs = NoObservation /\ coord'.step # "closed"
        /\ coord'.seen = coord.seen /\ coord'.date = coord.date
    BY <2>1, <2>3, InvalidatedBounds
  <2>5. worker' \in Workers /\ worker'.request = NoRequest /\ worker'.generation = worker.generation
    BY <2>1, CancelledBounds
  <2>6. ~StaleBasis' /\ (StaleTick' => StaleTick)
    BY <2>4, <2>5, NoneFacts DEF StaleBasis, StaleTick
  <2>7. Budget'
    BY <1>1, <2>2, <2>4, <2>6, BudgetSpent DEF IInv, Bounds
  <2>8. Pace'
    BY <2>4, <2>5 DEF Bounds, Pace, IInv, Shape, AnyCoordinator, AnyWorker
  <2> QED
    BY <1>1, <2>1, <2>4, <2>5, <2>7, <2>8 DEF Bounds, TypeOK
<1>3. CASE Answer(c, w) = [coord |-> c, worker |-> w, refused |-> refused]
  <2>1. coord' = c /\ worker' = w /\ refused' = refused
    BY <1>3
  <2>2. StaleTick' => StaleTick
    BY <2>1 DEF StaleTick
  <2>3. StaleBasis' => StaleBasis
    BY <2>1 DEF StaleBasis, TimeBasisInvalid
  <2>4. Budget'
    BY <1>1, <2>1, <2>2, <2>3, BudgetUntouched DEF IInv, Bounds
  <2>5. Pace'
    BY <2>1 DEF Bounds, Pace
  <2> QED
    BY <1>1, <2>1, <2>4, <2>5 DEF Bounds, TypeOK
<1> QED
  BY <1>2, <1>3, AnswerCases

LEMMA BoundsAsk == ASSUME IInv, IInv', Bounds, Ask PROVE Bounds'
<1>1. coord \in Coordinators /\ worker \in Workers /\ coord.step # "closed"
  BY DEF Bounds, TypeOK, Ask, BetweenTicks
<1>2. /\ coord' = Answer(coord, worker).coord /\ worker' = Answer(coord, worker).worker
      /\ refused' = Answer(coord, worker).refused
      /\ UNCHANGED <<settings, clock, thread, changes>>
  BY DEF Ask
<1> QED
  BY <1>1, <1>2, BoundsAnswer

LEMMA BoundsTickPolls == ASSUME IInv, IInv', Bounds, TickPolls PROVE Bounds'
<1> DEFINE result == Polled(worker)
           ours == /\ result.answer # "none"
                   /\ result.of.generation = coord.generation
                   /\ result.of.revision = settings.revision
           obs == IF ours THEN Observed(coord.obs, result, worker.age) ELSE coord.obs
           c == [coord EXCEPT !.obs = obs, !.step = "submit"]
           w == AfterPoll(worker)
<1>1. /\ coord' = Answer(c, w).coord /\ worker' = Answer(c, w).worker
      /\ refused' = Answer(c, w).refused /\ UNCHANGED <<settings, clock, thread, changes>>
      /\ coord.step = "poll"
  BY DEF TickPolls
<1>2. coord \in Coordinators /\ coord.obs \in Observations /\ worker \in Workers
      /\ worker.age \in 0..MaxAge
  <2>1. coord \in Coordinators /\ worker \in Workers
    BY DEF Bounds, TypeOK
  <2>2. worker.age \in 0..RefreshSeconds
    BY <2>1, FieldsOfWorker
  <2> QED
    BY <2>1, <2>2, FetchAssumption, FieldsOfCoord
<1>3. /\ w \in Workers /\ w.request \in {worker.request, NoRequest} /\ w.age = worker.age
      /\ w.generation = worker.generation
      /\ result.answer # "none" => result.of = worker.request /\ worker.request # NoRequest
  BY PollBounds DEF IInv, Bounds
<1>4. /\ obs \in Observations
      /\ obs.ok => \/ obs = coord.obs
                   \/ /\ worker.request # NoRequest
                      /\ worker.request.generation = coord.generation
                      /\ obs.window = worker.request
  <2>1. CASE ours /\ Good(result.answer)
    <3>1. obs = [known |-> TRUE, ok |-> TRUE, window |-> result.of,
                 warm |-> result.answer = "warm", age |-> worker.age]
      BY <2>1 DEF Observed
    <3>2. /\ result.of = worker.request /\ worker.request # NoRequest
          /\ result.of.generation = coord.generation
      BY <1>3, <2>1
    <3>3. (result.answer = "warm") \in BOOLEAN /\ result.of \in Requests
      BY <1>2, <3>2, FieldsOfWorker
    <3> HIDE DEF result, ours
    <3>4. obs \in Observations /\ obs.window = result.of
      <4> HIDE DEF obs
      <4> QED
        BY <1>2, <3>1, <3>3 DEF Observations
    <3> QED
      BY <3>2, <3>4
  <2>2. CASE ours /\ ~Good(result.answer)
    <3>1. obs = [coord.obs EXCEPT !.known = TRUE, !.ok = FALSE]
      BY <2>2 DEF Observed
    <3>2. obs \in Observations
      BY Zenon, <1>2, <3>1 DEF Observations
    <3>3. ~obs.ok
      BY <1>2, <3>1 DEF Observations
    <3> QED
      BY <3>2, <3>3
  <2>3. CASE ~ours
    BY <1>2, <2>3
  <2> QED
    BY <2>1, <2>2, <2>3
<1> HIDE DEF obs
<1>5. /\ c \in Coordinators /\ c.obs = obs /\ c.step = "submit" /\ c.refresh = coord.refresh
      /\ c.generation = coord.generation /\ c.seen = coord.seen /\ c.date = coord.date
  BY <1>2, <1>4 DEF Coordinators
<1> HIDE DEF c, w
<1> QED
  BY <1>1, <1>3, <1>4, <1>5, BoundsAnswer

(* A submission: the request has the clock's offset and the generation,    *)
(* and the last one is a refresh interval ago unless it was of an earlier. *)
LEMMA BoundsTickSubmits ==
    ASSUME IInv, IInv', Bounds, TickSubmits
    PROVE  /\ Bounds'
           /\ worker'.request # worker.request =>
                worker.age >= RefreshSeconds \/ worker'.generation > worker.generation
<1>1. /\ coord \in Coordinators /\ worker \in Workers /\ thread \in Threads
      /\ changes \in Int /\ RefreshSeconds \in 0..RefreshSeconds /\ 0 \in 0..RefreshSeconds
  BY FetchAssumption DEF Bounds, TypeOK
<1>2. UNCHANGED <<settings, clock, refused, changes>> /\ coord.step = "submit"
  BY DEF TickSubmits
<1>3. CASE /\ coord.refresh = 0 /\ Accepts(worker, Now) /\ worker' = Submitted(worker, Now)
           /\ thread' = [phase |-> "fetch", request |-> Now, outcome |-> "failed"]
           /\ coord' = [coord EXCEPT !.step = "idle", !.refresh = RefreshSeconds]
  <2>1. /\ Now \in Requests /\ Now.generation = coord.generation /\ Now.offset = clock.offset
        /\ Now.generation \in Generations
    <3>1. coord.generation \in Generations
      BY <1>1, FieldsOfCoord
    <3>2. settings.revision \in Revisions /\ clock.date \in none..MaxChanges /\ clock.offset \in {0, 1}
      BY FetchAssumption DEF Bounds, TypeOK, Revisions, none
    <3> QED
      BY <3>1, <3>2 DEF Now, Requests
  <2>2. /\ coord' \in Coordinators /\ coord'.generation = coord.generation
        /\ coord'.obs = coord.obs /\ coord'.refresh = RefreshSeconds /\ coord'.step = "idle"
        /\ coord'.seen = coord.seen /\ coord'.date = coord.date
    BY <1>1, <1>3 DEF Coordinators
  <2>3. /\ worker' \in Workers /\ worker'.request = Now /\ worker'.age = 0
        /\ worker'.generation = coord.generation
    <3> DEFINE g == Now.generation
    <3>1. worker' = [worker EXCEPT !.request = Now, !.age = 0, !.discard = FALSE, !.generation = g]
      BY <1>3 DEF Submitted
    <3>2. g \in Generations /\ g = coord.generation
      BY <2>1
    <3> HIDE DEF g
    <3>3. worker' \in Workers
      BY Zenon, <1>1, <2>1, <3>1, <3>2 DEF Workers
    <3> QED
      BY <1>1, <3>1, <3>2, <3>3 DEF Workers
  <2>4. thread' \in Threads
    BY <1>3, <2>1 DEF Threads, Outcomes
  <2>5. (StaleTick' => StaleTick) /\ (StaleBasis' => StaleBasis)
    BY <1>2, <2>1, <2>2, <2>3 DEF StaleTick, StaleBasis, TimeBasisInvalid
  <2>6. Budget'
    BY <1>1, <1>2, <2>2, <2>5, BudgetUntouched DEF IInv, Bounds
  <2>7. coord.generation \in Int /\ worker.generation \in Int /\ worker.age \in Int
    BY DEF IInv, Shape, AnyCoordinator, AnyWorker
  <2>8. Pace'
    BY <2>2, <2>3, <2>7, FetchAssumption DEF Pace
  <2>9. worker.age >= RefreshSeconds \/ worker'.generation > worker.generation
    BY <1>2, <1>3, <2>1, <2>3, <2>7, FetchAssumption DEF Accepts, Bounds, Pace
  <2> QED
    BY <1>2, <2>2, <2>3, <2>4, <2>6, <2>8, <2>9 DEF Bounds, TypeOK
<1>4. CASE coord' = [coord EXCEPT !.step = "idle"] /\ UNCHANGED <<worker, thread>>
  <2>1. /\ coord' \in Coordinators /\ coord'.generation = coord.generation
        /\ coord'.obs = coord.obs /\ coord'.refresh = coord.refresh /\ coord'.step = "idle"
        /\ coord'.seen = coord.seen /\ coord'.date = coord.date
    BY <1>1, <1>4 DEF Coordinators
  <2>2. (StaleTick' => StaleTick) /\ (StaleBasis' => StaleBasis)
    BY <1>2, <1>4, <2>1 DEF StaleTick, StaleBasis, TimeBasisInvalid
  <2>3. Budget'
    BY <1>1, <1>2, <2>1, <2>2, BudgetUntouched DEF IInv, Bounds
  <2>4. Pace'
    BY <1>2, <1>4, <2>1 DEF Bounds, Pace
  <2> QED
    BY <1>2, <1>4, <2>1, <2>3, <2>4 DEF Bounds, TypeOK
<1> QED
  BY <1>3, <1>4 DEF TickSubmits, Submission, Submits, NoSubmission

(* A thread that could not be started leaves the age of its request, and   *)
(* a coordinator that ticks no more.                                       *)
LEMMA BoundsSubmitFails ==
    ASSUME IInv, IInv', Bounds, SubmitFails
    PROVE  Bounds' /\ worker'.request = NoRequest
<1>1. /\ coord \in Coordinators /\ worker \in Workers /\ changes \in Int
      /\ coord.generation \in Generations /\ 0 \in 0..RefreshSeconds
      /\ coord.step = "submit"
  BY FetchAssumption, FieldsOfCoord DEF Bounds, TypeOK, SubmitFails
<1>2. UNCHANGED <<settings, clock, thread, refused, changes>>
  BY DEF SubmitFails
<1>3. /\ coord' \in Coordinators /\ coord'.generation = coord.generation
      /\ coord'.obs = coord.obs /\ coord'.step = "faulted"
      /\ coord'.seen = coord.seen /\ coord'.date = coord.date
  BY <1>1 DEF SubmitFails, Coordinators
<1>4. /\ worker' \in Workers /\ worker'.request = NoRequest
      /\ worker'.generation = coord.generation
  <2>1. worker' = [worker EXCEPT !.request = NoRequest, !.age = 0, !.discard = FALSE,
                                 !.generation = coord.generation]
    BY <1>1 DEF SubmitFails, Submitted, Now, Workers
  <2> QED
    BY <1>1, <2>1, BoundFacts DEF Workers
<1>5. (StaleTick' => StaleTick) /\ (StaleBasis' => StaleBasis)
  BY <1>2, <1>3, <1>4 DEF StaleTick, StaleBasis, TimeBasisInvalid
<1>6. Budget'
  BY <1>1, <1>2, <1>3, <1>5, BudgetUntouched DEF IInv, Bounds
<1>7. Pace'
  BY <1>3, <1>4 DEF Pace, IInv, Shape, AnyCoordinator
<1> QED
  BY <1>2, <1>3, <1>4, <1>6, <1>7 DEF Bounds, TypeOK

(* New settings: the change pays for the generation it ends, and nothing   *)
(* is stale after it.                                                      *)
LEMMA BoundsUpdateSettings ==
    ASSUME IInv, IInv', Bounds, NEW on \in BOOLEAN, UpdateSettings(on)
    PROVE  Bounds'
<1>1. /\ coord \in Coordinators /\ worker \in Workers /\ changes \in 0..MaxChanges
      /\ coord.step \in {"idle", "faulted"} /\ changes' = changes + 1 /\ changes' \in 0..MaxChanges
      /\ settings' = [on |-> on, revision |-> settings.revision + 1]
      /\ worker' = Cancelled(worker) /\ UNCHANGED <<clock, thread, refused>>
  BY FetchAssumption DEF Bounds, TypeOK, UpdateSettings, BetweenTicks
<1>2. /\ settings' \in [on : BOOLEAN, revision : Revisions]
      /\ settings'.revision \in none..MaxChanges /\ settings'.revision <= changes'
      /\ clock.date <= changes'
  BY <1>1, FetchAssumption DEF Bounds, Budget, TypeOK, Revisions, none
<1>3. coord.generation + 1 \in Generations
  BY <1>1, Affordable DEF IInv, Bounds
<1>4. /\ coord' \in Coordinators /\ coord'.generation = coord.generation + 1
      /\ ~coord'.obs.ok /\ coord'.seen = settings'.revision /\ coord'.date = none
      /\ coord'.step = coord.step
  <2>1. coord' = [Invalidated(coord) EXCEPT !.seen = settings'.revision, !.date = none]
    BY DEF UpdateSettings
  <2>2. none \in none..MaxChanges
    BY FetchAssumption DEF none
  <2>3. /\ Invalidated(coord) \in Coordinators /\ ~Invalidated(coord).obs.ok
        /\ Invalidated(coord).generation = coord.generation + 1
        /\ Invalidated(coord).step = coord.step
    BY <1>1, <1>3, InvalidatedBounds, NoneFacts
  <2> QED
    BY <1>2, <2>1, <2>2, <2>3 DEF Coordinators
<1>5. worker' \in Workers /\ worker'.request = NoRequest /\ worker'.generation = worker.generation
  BY <1>1, CancelledBounds
<1>6. ~StaleTick' /\ ~StaleBasis'
  BY <1>4, <1>5 DEF StaleTick, StaleBasis
<1>7. Budget'
  <2>1. One(StaleTick)' = 0 /\ One(StaleBasis)' = 0 /\ One(coord.step # "closed")' = 1
    BY <1>1, <1>4, <1>6 DEF One
  <2>2. coord.generation \in Int /\ coord.generation <= 2 * changes + 2
    BY <1>1, Affordable DEF IInv, Bounds, Shape, AnyCoordinator
  <2> QED
    BY <1>1, <1>2, <1>4, <2>1, <2>2, FetchAssumption DEF Budget
<1>8. Pace'
  BY <1>4, <1>5 DEF Bounds, Pace, IInv, Shape, AnyCoordinator, AnyWorker
<1> QED
  BY <1>1, <1>2, <1>4, <1>5, <1>7, <1>8 DEF Bounds, TypeOK

LEMMA BoundsStop == ASSUME IInv, IInv', Bounds, Stop PROVE Bounds'
<1>1. /\ coord \in Coordinators /\ worker \in Workers /\ changes \in 0..MaxChanges
      /\ coord.step # "closed" /\ UNCHANGED <<settings, clock, thread, refused, changes>>
  BY DEF Bounds, TypeOK, Stop, BetweenTicks
<1>2. coord.generation + 1 \in Generations
  BY <1>1, Affordable DEF IInv, Bounds
<1>3. /\ coord' \in Coordinators /\ coord'.generation = coord.generation + 1
      /\ ~coord'.obs.ok /\ coord'.step = "closed"
      /\ coord'.seen = coord.seen /\ coord'.date = coord.date
  <2>1. coord' = [Invalidated(coord) EXCEPT !.step = "closed"]
    BY DEF Stop
  <2>2. /\ Invalidated(coord) \in Coordinators /\ ~Invalidated(coord).obs.ok
        /\ Invalidated(coord).generation = coord.generation + 1
        /\ Invalidated(coord).seen = coord.seen /\ Invalidated(coord).date = coord.date
    BY <1>1, <1>2, InvalidatedBounds, NoneFacts
  <2> QED
    BY <2>1, <2>2 DEF Coordinators
<1>4. worker' \in Workers /\ worker'.request = NoRequest /\ worker'.generation = worker.generation
  <2>1. worker' = [Cancelled(worker) EXCEPT !.stopped = TRUE]
    BY DEF Stop
  <2>2. /\ Cancelled(worker) \in Workers /\ Cancelled(worker).request = NoRequest
        /\ Cancelled(worker).generation = worker.generation
    BY <1>1, CancelledBounds
  <2> QED
    BY <2>1, <2>2 DEF Workers
<1>5. (StaleTick' => StaleTick) /\ ~StaleBasis'
  BY <1>1, <1>3, <1>4 DEF StaleTick, StaleBasis
<1>6. Budget'
  <2>1. /\ One(StaleTick)' <= One(StaleTick) /\ One(StaleBasis)' = 0
        /\ One(coord.step # "closed")' = 0 /\ One(coord.step # "closed") = 1
        /\ One(StaleTick) \in Int /\ One(StaleTick)' \in Int /\ One(StaleBasis) \in {0, 1}
    BY <1>1, <1>3, <1>5 DEF One
  <2>2. coord.generation \in Int
    BY DEF IInv, Shape, AnyCoordinator
  <2> QED
    BY <1>1, <1>3, <2>1, <2>2, FetchAssumption DEF Bounds, Budget
<1>7. Pace'
  BY <1>3, <1>4 DEF Bounds, Pace, IInv, Shape, AnyCoordinator, AnyWorker
<1> QED
  BY <1>1, <1>3, <1>4, <1>6, <1>7 DEF Bounds, TypeOK

(* The fetch thread touches neither the budget nor the pace. *)
LEMMA ThreadKeepsBudget ==
    ASSUME Bounds, UNCHANGED <<settings, clock, coord, refused, changes>>,
           worker'.request = worker.request, worker'.age = worker.age,
           worker'.generation = worker.generation
    PROVE  Budget' /\ Pace'
  BY DEF Bounds, Budget, Pace, One, StaleTick, StaleBasis, TimeBasisInvalid

LEMMA BoundsFetchEnds ==
    ASSUME Bounds, NEW outcome \in {"warm", "cold", "failed"}, FetchEnds(outcome)
    PROVE  Bounds'
<1>1. UNCHANGED <<settings, clock, coord, worker, refused, changes>>
  BY DEF FetchEnds
<1>2. thread' \in Threads
  BY DEF Bounds, TypeOK, FetchEnds, Threads, Outcomes
<1> QED
  BY <1>1, <1>2, ThreadKeepsBudget DEF Bounds, TypeOK

LEMMA BoundsWake == ASSUME Bounds, Wake PROVE Bounds'
<1>1. UNCHANGED <<settings, clock, coord, worker, refused, changes>>
  BY DEF Wake
<1>2. thread' \in Threads
  BY BoundFacts DEF Wake, Threads, Outcomes
<1> QED
  BY <1>1, <1>2, ThreadKeepsBudget DEF Bounds, TypeOK

LEMMA BoundsPublish == ASSUME Bounds, Publish PROVE Bounds'
<1>1. /\ worker \in Workers /\ thread \in Threads /\ thread.request \in Requests
      /\ thread.outcome \in Outcomes /\ UNCHANGED <<settings, clock, coord, refused, changes>>
  BY DEF Bounds, TypeOK, Threads, Publish
<1>2. thread' \in Threads
  BY <1>1 DEF Publish, Threads
<1>3. /\ worker' \in Workers /\ worker'.request = worker.request /\ worker'.age = worker.age
      /\ worker'.generation = worker.generation
  BY <1>1 DEF Publish, Workers, Outcomes
<1> QED
  BY <1>1, <1>2, <1>3, ThreadKeepsBudget DEF Bounds, TypeOK

(* What the refresh interval loses the age of the submission gains. *)
LEMMA BoundsTimePasses == ASSUME IInv, IInv', Bounds, TimePasses PROVE Bounds'
<1> DEFINE r == IF coord.refresh > 0 THEN coord.refresh - 1 ELSE coord.refresh
           o == [coord.obs EXCEPT !.age = IF coord.obs.ok THEN Older(@, MaxAge) ELSE @]
           a == Older(worker.age, RefreshSeconds)
<1>1. /\ coord \in Coordinators /\ worker \in Workers /\ changes \in Int
      /\ UNCHANGED <<settings, clock, thread, refused, changes>>
      /\ coord.obs \in Observations /\ coord.refresh \in 0..RefreshSeconds
      /\ worker.age \in 0..RefreshSeconds /\ RefreshSeconds \in Nat /\ MaxAge \in Nat
  BY FetchAssumption, FieldsOfCoord, FieldsOfWorker DEF Bounds, TypeOK, TimePasses
<1>2. r \in 0..RefreshSeconds /\ a \in 0..RefreshSeconds
      /\ (worker.age + coord.refresh >= RefreshSeconds => a + r >= RefreshSeconds)
  BY <1>1 DEF Older
<1>3. o \in Observations /\ o.ok = coord.obs.ok /\ o.window = coord.obs.window
  BY <1>1 DEF Observations, Older
<1>4. coord' = [coord EXCEPT !.refresh = r, !.obs = o] /\ worker' = [worker EXCEPT !.age = a]
  BY <1>1 DEF TimePasses, Coordinators, Observations, Workers
<1> HIDE DEF r, o, a
<1>5. /\ coord' \in Coordinators /\ coord'.refresh = r /\ coord'.obs = o
      /\ coord'.generation = coord.generation /\ coord'.seen = coord.seen
      /\ coord'.date = coord.date /\ coord'.step = coord.step
  BY <1>1, <1>2, <1>3, <1>4 DEF Coordinators
<1>6. /\ worker' \in Workers /\ worker'.age = a /\ worker'.request = worker.request
      /\ worker'.generation = worker.generation
  BY <1>1, <1>2, <1>4 DEF Workers
<1>7. (StaleTick' => StaleTick) /\ (StaleBasis' => StaleBasis)
  BY <1>1, <1>3, <1>5, <1>6 DEF StaleTick, StaleBasis, TimeBasisInvalid
<1>8. Budget'
  BY <1>1, <1>5, <1>7, BudgetUntouched DEF IInv, Bounds
<1>9. Pace'
  BY <1>2, <1>5, <1>6 DEF Bounds, Pace
<1> QED
  BY <1>1, <1>5, <1>6, <1>8, <1>9 DEF Bounds, TypeOK

(* A change of the date or of the clock pays for both ways to find it. *)
LEMMA BoundsClockChanges == ASSUME IInv, IInv', Bounds, ClockChanges PROVE Bounds'
<1>1. /\ UNCHANGED <<settings, coord, worker, thread, refused>>
      /\ changes \in 0..MaxChanges /\ changes' = changes + 1 /\ changes' \in 0..MaxChanges
  BY FetchAssumption DEF Bounds, TypeOK, ClockChanges
<1>2. /\ clock' \in [date : Revisions, offset : {0, 1}] /\ clock'.date <= changes'
      /\ settings.revision <= changes'
  <2>1. PICK date \in {clock.date, clock.date + 1}, offset \in {0, 1} :
           clock' = [date |-> date, offset |-> offset]
    BY DEF ClockChanges
  <2>2. clock.date \in Int /\ 0 <= clock.date /\ clock.date <= changes
        /\ settings.revision \in Int /\ settings.revision <= changes
    BY FetchAssumption DEF Bounds, TypeOK, Budget, Revisions
  <2>3. date \in 0..MaxChanges /\ date <= changes'
    BY <1>1, <2>1, <2>2, FetchAssumption
  <2> QED
    BY <1>1, <2>1, <2>2, <2>3, FetchAssumption DEF Revisions
<1>3. Budget'
  <2>1. /\ One(StaleTick)' \in {0, 1} /\ One(StaleBasis)' \in {0, 1}
        /\ One(StaleTick) \in {0, 1} /\ One(StaleBasis) \in {0, 1}
        /\ One(coord.step # "closed")' = One(coord.step # "closed")
        /\ One(coord.step # "closed") \in {0, 1}
    BY <1>1 DEF One
  <2>2. coord.generation \in Int
    BY DEF IInv, Shape, AnyCoordinator
  <2> QED
    BY <1>1, <1>2, <2>1, <2>2, FetchAssumption DEF Bounds, Budget
<1>4. Pace'
  BY <1>1 DEF Bounds, Pace
<1> QED
  BY <1>1, <1>2, <1>3, <1>4 DEF Bounds, TypeOK

LEMMA BoundsStep ==
    ASSUME IInv, IInv', Bounds, [Next]_vars
    PROVE  /\ Bounds'
           /\ worker'.request # NoRequest /\ worker'.request # worker.request =>
                worker.age >= RefreshSeconds \/ worker'.generation > worker.generation
<1>1. CASE TickSubmits \/ SubmitFails
  BY <1>1, BoundsTickSubmits, BoundsSubmitFails
<1>2. CASE \/ TickBegins \/ TickPolls \/ Ask \/ Stop
           \/ \E on \in BOOLEAN : UpdateSettings(on)
  <2>1. Bounds'
    BY <1>2, BoundsTickBegins, BoundsTickPolls, BoundsAsk, BoundsStop, BoundsUpdateSettings
  <2>2. worker \in AnyWorker /\ AfterPoll(worker) \in AnyWorker
    BY PollFacts DEF IInv, Shape
  <2>3. worker'.request \in {worker.request, NoRequest}
    <3>1. CASE TickBegins \/ \E on \in BOOLEAN : UpdateSettings(on)
      BY <2>2, <3>1, CancelledFacts DEF TickBegins, UpdateSettings
    <3>2. CASE Stop
      BY <2>2, <3>2, CancelledFacts DEF Stop, AnyWorker
    <3>3. CASE TickPolls \/ Ask
      <4>1. worker' \in {worker, Cancelled(worker), AfterPoll(worker), Cancelled(AfterPoll(worker))}
        BY <3>3, AnswerCases DEF TickPolls, Ask
      <4>2. AfterPoll(worker).request \in {worker.request, NoRequest}
        BY PollBounds DEF IInv, Bounds
      <4> QED
        BY <2>2, <4>1, <4>2, CancelledFacts
    <3> QED
      BY <1>2, <3>1, <3>2, <3>3
  <2> QED
    BY <2>1, <2>3
<1>3. CASE \/ \E outcome \in {"warm", "cold", "failed"} : FetchEnds(outcome)
           \/ Publish \/ Wake \/ TimePasses \/ ClockChanges
  <2>1. Bounds'
    BY <1>3, BoundsFetchEnds, BoundsPublish, BoundsWake, BoundsTimePasses, BoundsClockChanges
  <2>2. worker'.request = worker.request
    BY <1>3 DEF FetchEnds, Publish, Wake, TimePasses, ClockChanges, IInv, Shape, AnyWorker
  <2> QED
    BY <2>1, <2>2
<1>4. CASE UNCHANGED vars
  <2>1. Budget' /\ Pace'
    BY <1>4, ThreadKeepsBudget DEF vars
  <2> QED
    BY <1>4, <2>1 DEF vars, Bounds, TypeOK
<1> QED
  BY <1>1, <1>2, <1>3, <1>4 DEF Next

LEMMA BoundsAlways == Spec => [](IInv /\ Bounds)
<1>1. Init => IInv /\ Bounds
  BY InvInit, BoundsInit
<1>2. IInv /\ Bounds /\ [Next]_vars => (IInv /\ Bounds)'
  BY InvStep, BoundsStep
<1> QED
  BY <1>1, <1>2, PTL DEF Spec

(* Every variable keeps its type: in particular a generation ends at most  *)
(* twice for a change, and once each for startup, first tick and shutdown. *)
THEOREM TypeCorrect == Spec => []TypeOK
<1>1. IInv /\ Bounds => TypeOK
  BY DEF Bounds
<1> QED
  BY <1>1, BoundsAlways, PTL

(* The coordinator submits no second request to the provider within a      *)
(* refresh interval of one generation, however the attempts before failed. *)
THEOREM AskedAtAPace == Spec => RequestsArePaced
<1>1. IInv /\ Bounds /\ (IInv /\ Bounds)' /\ [Next]_vars =>
         [worker'.request # NoRequest /\ worker'.request # worker.request =>
            worker.age >= RefreshSeconds \/ worker'.generation > worker.generation]_vars
  BY BoundsStep
<1> QED
  BY <1>1, BoundsAlways, PTL DEF Spec, RequestsArePaced
=============================================================================
