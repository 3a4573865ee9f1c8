--------------------------- MODULE TelegramProofs ---------------------------
(***************************************************************************)
(* Proofs about Telegram for every set of paths, number of tasks, button,  *)
(* interval and length of time.                                            *)
(***************************************************************************)
EXTENDS Telegram, SequenceTheorems, TLAPS

ErrorStep(t) == ThrottleError(t) \/ PassThrottle(t) \/ ReadClock(t) \/ StampError(t)

(* The list of mutes is what the user asked for, but for what has expired. *)
MutesKept ==
    /\ \A p \in DOMAIN muted : muted[p] = until[p]
    /\ \A p \in Paths : now < until[p] => p \in DOMAIN muted

(* A note that is being sent still has the guard: its path is not muted,   *)
(* and nobody else can change that.                                        *)
SendingHolds ==
    \A t \in Tasks : note[t].pc = "sending" => Holds(t) /\ until[note[t].path] <= now

(* last_log_time is that of an error whose stamp is the newest, or was     *)
(* read before the newer ones and written over them.                       *)
WroteLast(w) ==
    /\ w \in StampedReports /\ report[w].at = lastLog
    /\ \A s \in StampedReports : report[s].at <= lastLog \/ WrittenOver(s, w)

LastStamp ==
    /\ Interval <= now /\ lastLog <= now
    /\ \A t \in Tasks : report[t].at <= now
    /\ \A t \in Tasks : report[t].pc = "read" => report[t].stamp = report[t].at
    /\ (StampedReports = {} /\ lastLog = 0) \/ \E w \in Tasks : WroteLast(w)

(* What an error found stamped, or what was written over it, lay an        *)
(* Interval back when it looked.                                           *)
FoundOld ==
    \A t \in Tasks : \A s \in report[t].after :
        /\ s \in StampedReports /\ report[s].at <= report[t].at
        /\ \E a \in report[t].after :
               (a = s \/ WrittenOver(s, a)) /\ report[a].at + Interval <= report[t].at

HeldBack ==
    \A t \in Tasks : report[t].pc = "throttled" =>
        \E s \in StampedReports :
            report[s].at <= report[t].at /\ report[t].at < report[s].at + Interval

Throttling == LastStamp /\ FoundOld /\ HeldBack
-----------------------------------------------------------------------------
(* Type correctness. *)
LEMMA InitTypes == Init => TypeOK
<1> SUFFICES ASSUME Init PROVE TypeOK
  OBVIOUS
<1>1. guard \in Seq(Tasks \cup {Bot}) /\ updates \in Seq([path : Paths, duration : Durations])
  BY DEF Init
<1>2. DOMAIN muted \subseteq Paths /\ muted \in [DOMAIN muted -> Nat]
  <2>1. DOMAIN muted = {}
    BY DEF Init
  <2> QED
    BY <2>1 DEF Init
<1> QED
  BY <1>1, <1>2, TelegramAssumption DEF Init, TypeOK, NotePlaces, ReportPlaces

(* What handing the Mutex on does to its queue. *)
LEMMA GuardTypes ==
    ASSUME guard \in Seq(Tasks \cup {Bot}), NEW who \in Tasks \cup {Bot}
    PROVE  /\ Queued(who) \in Seq(Tasks \cup {Bot})
           /\ Released(who) \in Seq(Tasks \cup {Bot})
<1>1. guard # <<>> => Tail(guard) \in Seq(Tasks \cup {Bot})
  OBVIOUS
<1> QED
  BY <1>1 DEF Queued, Released, Holds

LEMMA KeptTypes ==
    ASSUME TypeOK
    PROVE  /\ DOMAIN Kept \subseteq DOMAIN muted /\ Kept \in [DOMAIN Kept -> Nat]
           /\ \A p \in DOMAIN Kept : Kept[p] = muted[p] /\ now < muted[p]
           /\ \A p \in DOMAIN muted : now < muted[p] => p \in DOMAIN Kept
BY DEF TypeOK, Kept

LEMMA StepTypes == TypeOK /\ [Next]_vars => TypeOK'
<1> SUFFICES ASSUME TypeOK, [Next]_vars PROVE TypeOK'
  OBVIOUS
<1> USE TelegramAssumption DEF NotePlaces, ReportPlaces
<1>1. CASE Tick
  BY <1>1 DEF TypeOK, Tick, muting, throttling
<1>2. CASE TakePress
  <2>1. guard' \in Seq(Tasks \cup {Bot})
    BY <1>2, GuardTypes DEF TakePress, TypeOK
  <2>2. Head(updates) \in [path : Paths, duration : Durations] /\ updates' \in Seq([path : Paths, duration : Durations])
    <3>1. updates \in Seq([path : Paths, duration : Durations]) /\ updates # <<>> /\ updates' = Tail(updates)
      BY <1>2 DEF TakePress, TypeOK
    <3> QED
      BY <3>1, HeadTailProperties
  <2> QED
    BY <1>2, <2>1, <2>2 DEF TakePress, TypeOK, throttling
<1>3. CASE MuteOpportunity
  <2>1. guard' \in Seq(Tasks \cup {Bot})
    BY <1>3, GuardTypes DEF MuteOpportunity, TypeOK
  <2>2. until' \in [Paths -> Nat] /\ DOMAIN muted' \subseteq Paths /\ muted' \in [DOMAIN muted' -> Nat]
    BY <1>3 DEF MuteOpportunity, TypeOK
  <2> QED
    BY <1>3, <2>1, <2>2 DEF MuteOpportunity, TypeOK, throttling
<1>4. CASE Answer
  BY <1>4 DEF TypeOK, Answer, throttling
<1>5. ASSUME NEW p \in Paths, NEW d \in Durations, Press(p, d) PROVE TypeOK'
  <2>1. updates' \in Seq([path : Paths, duration : Durations])
    BY <1>5 DEF Press, TypeOK
  <2> QED
    BY <1>5, <2>1 DEF Press, TypeOK, throttling
<1>6. ASSUME NEW t \in Tasks, NEW p \in Paths, LogOpportunity(t, p) PROVE TypeOK'
  BY <1>6 DEF TypeOK, LogOpportunity, throttling
<1>7. ASSUME NEW t \in Tasks, NoteStep(t) PROVE TypeOK'
  <2>1. guard' \in Seq(Tasks \cup {Bot})
    BY <1>7, GuardTypes DEF NoteStep, Ask, SkipMuted, PassMute, GuardWhileSending, Sent, SendFails, TypeOK
  <2>2. DOMAIN muted' \subseteq Paths /\ muted' \in [DOMAIN muted' -> Nat]
    BY <1>7, KeptTypes DEF NoteStep, Ask, SkipMuted, PassMute, Sent, SendFails, TypeOK
  <2>3. /\ note' \in [Tasks -> [path : Paths \cup {None}, pc : NotePlaces]]
        /\ \A s \in Tasks : note'[s].pc \in {"spawned", "waiting", "sending"} => note'[s].path \in Paths
    <3>1. /\ note \in [Tasks -> [path : Paths \cup {None}, pc : NotePlaces]]
          /\ \A s \in Tasks : note[s].pc \in {"spawned", "waiting", "sending"} => note[s].path \in Paths
      BY DEF TypeOK
    <3>2. CASE note[t].pc \in {"spawned", "waiting"} /\ (At(t, "waiting") \/ At(t, "sending"))
      BY <3>1, <3>2 DEF At
    <3>3. CASE End(t, "muted") \/ End(t, "sent") \/ End(t, "lost")
      BY <3>1, <3>3 DEF End
    <3> QED
      BY <1>7, <3>2, <3>3 DEF NoteStep, Ask, SkipMuted, PassMute, Sent, SendFails
  <2>4. told' \subseteq Paths
    BY <1>7 DEF NoteStep, Ask, SkipMuted, PassMute, Sent, SendFails, TypeOK
  <2>5. UNCHANGED <<now, updates, bot, pressed, until, lastLog, report>>
    BY <1>7 DEF NoteStep, Ask, SkipMuted, PassMute, Sent, SendFails, throttling
  <2> QED
    BY <2>1, <2>2, <2>3, <2>4, <2>5 DEF TypeOK
<1>8. ASSUME NEW t \in Tasks, ErrorStep(t) PROVE TypeOK'
  <2>1. /\ now \in Nat /\ lastLog \in Nat
        /\ report \in [Tasks -> [pc : ReportPlaces, at : Nat, stamp : Nat, after : SUBSET Tasks]]
    BY DEF TypeOK
  <2>2. StampedReports \in SUBSET Tasks
    BY DEF StampedReports
  <2>3. /\ report' \in [Tasks -> [pc : ReportPlaces, at : Nat, stamp : Nat, after : SUBSET Tasks]]
        /\ lastLog' \in Nat
    BY <1>8, <2>1, <2>2 DEF ErrorStep, ThrottleError, PassThrottle, ReadClock, Stamp, StampError
  <2> QED
    BY <1>8, <2>3 DEF ErrorStep, ThrottleError, PassThrottle, ReadClock, StampError, muting, TypeOK
<1>9. CASE UNCHANGED vars
  BY <1>9 DEF TypeOK, vars, muting, throttling
<1> QED
  BY <1>1, <1>2, <1>3, <1>4, <1>5, <1>6, <1>7, <1>8, <1>9 DEF Next, NoteStep, ErrorStep

(* The clock, the queues, the records and the map stay of their types.     *)
THEOREM TypeCorrect == Spec => []TypeOK
BY InitTypes, StepTypes, PTL DEF Spec
-----------------------------------------------------------------------------
(* The Mutex protects the list of mutes. *)
Mutes == MutesKept /\ SendingHolds

LEMMA InitMutes == Init => Mutes
<1> SUFFICES ASSUME Init PROVE Mutes
  OBVIOUS
<1>1. DOMAIN muted = {}
  BY DEF Init
<1> QED
  BY <1>1, TelegramAssumption DEF Init, Mutes, MutesKept, SendingHolds

(* Who asks for the Mutex takes it from nobody; who holds it alone gives   *)
(* it up.                                                                  *)
LEMMA GuardHandover ==
    ASSUME guard \in Seq(Tasks \cup {Bot}), NEW who \in Tasks \cup {Bot}, NEW t \in Tasks, Holds(t)
    PROVE  Queued(who) # <<>> /\ Head(Queued(who)) = t
BY HeadTailAppend DEF Queued, Holds

LEMMA StepMutes == TypeOK /\ Mutes /\ [Next]_vars => Mutes'
<1> SUFFICES ASSUME TypeOK, Mutes, [Next]_vars PROVE Mutes'
  OBVIOUS
<1>0. Bot \notin Tasks
  BY DEF Bot, Tasks
<1>1. CASE Tick
  BY <1>1 DEF TypeOK, Mutes, MutesKept, SendingHolds, Holds, Tick, muting
<1>2. CASE TakePress
  <2>1. MutesKept'
    BY <1>2 DEF TakePress, Mutes, MutesKept
  <2>2. SendingHolds'
    BY <1>2, GuardHandover DEF TakePress, Mutes, SendingHolds, Holds, TypeOK
  <2> QED
    BY <2>1, <2>2 DEF Mutes
<1>3. CASE MuteOpportunity
  <2>1. MutesKept'
    BY <1>3 DEF MuteOpportunity, Mutes, MutesKept, TypeOK
  <2>2. \A t \in Tasks : note[t].pc # "sending"
    BY <1>0, <1>3 DEF MuteOpportunity, Mutes, SendingHolds, Holds
  <2>3. SendingHolds'
    BY <1>3, <2>2 DEF MuteOpportunity, SendingHolds
  <2> QED
    BY <2>1, <2>3 DEF Mutes
<1>4. CASE Answer
  BY <1>4 DEF Answer, Mutes, MutesKept, SendingHolds, Holds
<1>5. ASSUME NEW p \in Paths, NEW d \in Durations, Press(p, d) PROVE Mutes'
  BY <1>5 DEF Press, Mutes, MutesKept, SendingHolds, Holds
<1>6. ASSUME NEW t \in Tasks, NEW p \in Paths, LogOpportunity(t, p) PROVE Mutes'
  BY <1>6 DEF LogOpportunity, Mutes, MutesKept, SendingHolds, Holds, TypeOK
<1>7. ASSUME NEW t \in Tasks, Ask(t) PROVE Mutes'
  <2>1. MutesKept'
    BY <1>7 DEF Ask, Mutes, MutesKept
  <2>2. SendingHolds'
    BY <1>7, GuardHandover DEF Ask, At, Mutes, SendingHolds, Holds, TypeOK
  <2> QED
    BY <2>1, <2>2 DEF Mutes
<1>8. ASSUME NEW t \in Tasks, SkipMuted(t) \/ PassMute(t) PROVE Mutes'
  <2>1. /\ DOMAIN Kept \subseteq DOMAIN muted
        /\ \A p \in DOMAIN Kept : Kept[p] = until[p]
        /\ \A p \in Paths : now < until[p] => p \in DOMAIN Kept
    BY KeptTypes DEF Mutes, MutesKept
  <2>2. MutesKept'
    BY <1>8, <2>1 DEF SkipMuted, PassMute, MutesKept
  <2>3. \A s \in Tasks \ {t} : note[s].pc # "sending"
    BY <1>8 DEF SkipMuted, PassMute, Mutes, SendingHolds, Holds
  <2>4. CASE SkipMuted(t)
    BY <2>2, <2>3, <2>4 DEF SkipMuted, End, Mutes, SendingHolds, TypeOK
  <2>5. CASE PassMute(t)
    <3>1. until[note[t].path] <= now
      BY <2>1, <2>5 DEF PassMute, TypeOK
    <3>2. /\ note' = [note EXCEPT ![t].pc = "sending"]
          /\ UNCHANGED <<guard, until, now>> /\ Holds(t)
      BY <2>5 DEF PassMute, At, GuardWhileSending
    <3>3. SendingHolds'
      BY <2>3, <3>1, <3>2 DEF SendingHolds, Holds, TypeOK
    <3> QED
      BY <2>2, <3>3 DEF Mutes
  <2> QED
    BY <1>8, <2>4, <2>5
<1>9. ASSUME NEW t \in Tasks, Sent(t) \/ SendFails(t) PROVE Mutes'
  <2>1. MutesKept'
    BY <1>9 DEF Sent, SendFails, Mutes, MutesKept
  <2>2. \A s \in Tasks \ {t} : note[s].pc # "sending"
    BY <1>9 DEF Sent, SendFails, Mutes, SendingHolds, Holds
  <2>3. End(t, "sent") \/ End(t, "lost")
    BY <1>9 DEF Sent, SendFails
  <2>4. SendingHolds'
    <3>1. DOMAIN note = Tasks
      BY DEF TypeOK
    <3>2. \A s \in Tasks : note'[s].pc # "sending"
      BY <2>2, <2>3, <3>1 DEF End
    <3> QED
      BY <3>2 DEF SendingHolds
  <2> QED
    BY <2>1, <2>4 DEF Mutes
<1>10. ASSUME NEW t \in Tasks, ErrorStep(t) PROVE Mutes'
  BY <1>10 DEF ErrorStep, ThrottleError, PassThrottle, ReadClock, StampError, muting, Mutes, MutesKept, SendingHolds, Holds
<1>11. CASE UNCHANGED vars
  BY <1>11 DEF vars, muting, Mutes, MutesKept, SendingHolds, Holds
<1> QED
  BY <1>1, <1>2, <1>3, <1>4, <1>5, <1>6, <1>7, <1>8, <1>9, <1>10, <1>11 DEF Next, ErrorStep

(* A step that sends or withholds a message does what the user asked for.  *)
LEMMA MutesDecide == TypeOK /\ Mutes /\ [Next]_vars => MuteObeyed
<1> SUFFICES ASSUME TypeOK, Mutes, [Next]_vars, NEW t \in Tasks
             PROVE  /\ note[t].pc = "sending" /\ note'[t].pc = "sent" => until[note[t].path] <= now
                    /\ note[t].pc = "waiting" /\ note'[t].pc = "muted" => now < until[note[t].path]
  BY DEF MuteObeyed
<1>1. ASSUME note[t].pc = "sending" PROVE until[note[t].path] <= now
  BY <1>1 DEF Mutes, SendingHolds
<1>2. ASSUME note[t].pc = "waiting", note'[t].pc = "muted" PROVE SkipMuted(t)
  <2>1. ASSUME NEW s \in Tasks, NoteStep(s) PROVE s = t /\ SkipMuted(t)
    <3>1. DOMAIN note = Tasks
      BY DEF TypeOK
    <3>2. s = t
      BY <1>2, <2>1, <3>1 DEF NoteStep, Ask, SkipMuted, PassMute, Sent, SendFails, At, End
    <3>3. ~(Sent(t) \/ SendFails(t))
      BY <1>2 DEF Sent, SendFails
    <3>4. ~(Ask(t) \/ PassMute(t))
      <4>1. note \in [Tasks -> [path : Paths \cup {None}, pc : NotePlaces]]
        BY DEF TypeOK
      <4> QED
        BY <1>2, <4>1 DEF Ask, PassMute, At
    <3> QED
      BY <2>1, <3>2, <3>3, <3>4 DEF NoteStep
  <2>2. ASSUME NEW s \in Tasks, NEW p \in Paths, LogOpportunity(s, p) PROVE FALSE
    BY <1>2, <2>2 DEF LogOpportunity, TypeOK
  <2>3. ASSUME UNCHANGED note PROVE FALSE
    BY <1>2, <2>3
  <2> QED
    BY <2>1, <2>2, <2>3 DEF Next, NoteStep, Tick, TakePress, MuteOpportunity, Answer, Press,
        ThrottleError, PassThrottle, ReadClock, StampError, vars, muting
<1>3. ASSUME SkipMuted(t) PROVE now < until[note[t].path]
  <2>1. note[t].path \in DOMAIN Kept
    BY <1>3 DEF SkipMuted
  <2> QED
    BY <2>1, KeptTypes DEF Mutes, MutesKept
<1> QED
  BY <1>1, <1>2, <1>3

(* No message about a muted path appears, whoever had looked before the    *)
(* button was pressed, and nothing else is held back.                      *)
THEOREM MutesAreObeyed == Spec => MutesHold
<1>1. TypeOK /\ Mutes /\ [Next]_vars => TypeOK' /\ Mutes'
  BY StepTypes, StepMutes
<1> QED
  BY InitTypes, InitMutes, <1>1, MutesDecide, PTL DEF Spec, MutesHold
-----------------------------------------------------------------------------
(* The stamps. *)
LEMMA InitThrottling == Init => Throttling
BY TelegramAssumption DEF Init, Throttling, LastStamp, FoundOld, HeldBack, StampedReports

(* A step of an error that stamps nothing leaves the stamped ones alone.   *)
LEMMA StampedStay ==
    ASSUME TypeOK, Throttling, NEW t \in Tasks, t \notin StampedReports,
           \A s \in Tasks \ {t} : report'[s] = report[s],
           StampedReports' = StampedReports, UNCHANGED <<now, lastLog>>,
           report'[t].at = now, report'[t].pc = "read" => report'[t].stamp = now
    PROVE  /\ LastStamp'
           /\ \A s \in Tasks \ {t} : \A u \in report[s].after : u # t
           /\ \A u, a \in StampedReports : WrittenOver(u, a) <=> WrittenOver(u, a)'
<1>1. \A u \in StampedReports : u \in Tasks /\ u # t /\ report'[u] = report[u]
  BY DEF StampedReports
<1>2. \A u, a \in StampedReports : WrittenOver(u, a) <=> WrittenOver(u, a)'
  BY <1>1 DEF WrittenOver
<1>3. \A w \in Tasks : WroteLast(w) => WroteLast(w)'
  BY <1>1, <1>2 DEF WroteLast
<1>4. \A s \in Tasks : report'[s].at <= now' /\ (report'[s].pc = "read" => report'[s].stamp = report'[s].at)
  <2>1. now \in Nat
    BY DEF TypeOK
  <2>2. \A s \in Tasks \ {t} : report'[s].at <= now /\ (report'[s].pc = "read" => report'[s].stamp = report'[s].at)
    BY DEF Throttling, LastStamp
  <2> QED
    BY <2>1, <2>2
<1>5. LastStamp'
  BY <1>3, <1>4 DEF Throttling, LastStamp
<1> QED
  BY <1>1, <1>2, <1>5 DEF Throttling, FoundOld

LEMMA FoundStays ==
    ASSUME TypeOK, Throttling, NEW t \in Tasks, t \notin StampedReports,
           \A s \in Tasks \ {t} : report'[s] = report[s],
           StampedReports' = StampedReports, UNCHANGED <<now, lastLog>>,
           report'[t].at = now, report'[t].pc = "read" => report'[t].stamp = now,
           report'[t].after = report[t].after
    PROVE  FoundOld'
<1>1. /\ \A s \in Tasks \ {t} : \A u \in report[s].after : u # t
      /\ \A u, a \in StampedReports : WrittenOver(u, a) <=> WrittenOver(u, a)'
  BY StampedStay
<1>2. SUFFICES ASSUME NEW u \in Tasks, NEW s \in report[u].after
               PROVE  /\ s \in StampedReports /\ report'[s].at <= report'[u].at
                      /\ \E a \in report[u].after :
                            (a = s \/ WrittenOver(s, a)') /\ report'[a].at + Interval <= report'[u].at
  BY DEF FoundOld
<1>3. \A v \in StampedReports : v \in Tasks /\ report'[v] = report[v] /\ report[v].at \in Nat
  BY DEF StampedReports, TypeOK
<1>4. /\ s \in StampedReports /\ report[s].at <= report[u].at
      /\ \A a \in report[u].after : a \in StampedReports
  BY <1>2 DEF Throttling, FoundOld
<1>5. PICK a \in report[u].after : (a = s \/ WrittenOver(s, a)) /\ report[a].at + Interval <= report[u].at
  BY <1>2 DEF Throttling, FoundOld
<1>6. report[u].at <= report'[u].at /\ report'[u].at \in Nat /\ report[u].at \in Nat
  <2>1. now \in Nat /\ report[u].at \in Nat /\ report[u].at <= now
    BY DEF Throttling, LastStamp, TypeOK
  <2> QED
    BY <2>1
<1>7. report'[s] = report[s] /\ report'[a] = report[a] /\ (a = s \/ WrittenOver(s, a)')
  BY <1>1, <1>3, <1>4, <1>5
<1>8. report[s].at \in Nat /\ report[a].at \in Nat
  BY <1>3, <1>4, <1>5
<1> QED
  BY <1>4, <1>5, <1>6, <1>7, <1>8, TelegramAssumption

LEMMA StepThrottling == TypeOK /\ Throttling /\ [Next]_vars => Throttling'
<1> SUFFICES ASSUME TypeOK, Throttling, [Next]_vars PROVE Throttling'
  OBVIOUS
<1> USE TelegramAssumption DEF Throttling
<1>1. CASE Tick
  <2>1. now' = now + 1 /\ now \in Nat /\ UNCHANGED <<lastLog, report>>
    BY <1>1 DEF Tick, throttling, TypeOK
  <2>2. LastStamp'
    BY <2>1 DEF LastStamp, WroteLast, WrittenOver, StampedReports, TypeOK
  <2>3. FoundOld' /\ HeldBack'
    BY <2>1 DEF FoundOld, WrittenOver, HeldBack, StampedReports
  <2> QED
    BY <2>2, <2>3
<1>2. ASSUME UNCHANGED <<now, throttling>> PROVE Throttling'
  BY <1>2 DEF LastStamp, WroteLast, WrittenOver, FoundOld, HeldBack, StampedReports, throttling
<1>3. ASSUME NEW t \in Tasks, ThrottleError(t) PROVE Throttling'
  <2>1. /\ report[t].pc = "none" /\ report' = [report EXCEPT ![t].pc = "throttled", ![t].at = now]
        /\ UNCHANGED <<now, lastLog>> /\ now - lastLog < Interval
    BY <1>3 DEF ThrottleError, NextFree, Free, Throttled, muting
  <2>2. /\ StampedReports' = StampedReports /\ t \notin StampedReports
        /\ \A s \in Tasks \ {t} : report'[s] = report[s]
        /\ report'[t].at = now /\ report'[t].pc = "throttled" /\ report'[t].after = report[t].after
    BY <2>1 DEF StampedReports, TypeOK
  <2>3. LastStamp'
    BY <2>1, <2>2, StampedStay
  <2>4. FoundOld'
    BY <2>1, <2>2, FoundStays
  <2>5. \E s \in StampedReports : report[s].at <= now /\ now < report[s].at + Interval
    <3>1. PICK w \in Tasks : WroteLast(w)
      BY <2>1 DEF LastStamp, TypeOK
    <3> QED
      BY <2>1, <3>1 DEF WroteLast, LastStamp, TypeOK
  <2>6. HeldBack'
    <3>1. \A s \in StampedReports : s \in Tasks \ {t}
      BY <2>2 DEF StampedReports
    <3> QED
      BY <2>2, <2>5, <3>1 DEF HeldBack
  <2> QED
    BY <2>3, <2>4, <2>6
<1>4. ASSUME NEW t \in Tasks, PassThrottle(t) PROVE Throttling'
  <2>1. /\ report[t].pc = "none" /\ UNCHANGED <<now, lastLog>> /\ ~(now - lastLog < Interval)
        /\ report' = [report EXCEPT ![t].pc = "passed", ![t].at = now, ![t].after = StampedReports]
    BY <1>4 DEF PassThrottle, NextFree, Free, Throttled, muting
  <2>2. /\ StampedReports' = StampedReports /\ t \notin StampedReports
        /\ \A s \in Tasks \ {t} : report'[s] = report[s]
        /\ report'[t].at = now /\ report'[t].pc = "passed" /\ report'[t].after = StampedReports
    BY <2>1 DEF StampedReports, TypeOK
  <2>3. /\ LastStamp'
        /\ \A s \in Tasks \ {t} : \A u \in report[s].after : u # t
        /\ \A u, a \in StampedReports : WrittenOver(u, a) <=> WrittenOver(u, a)'
    BY <2>1, <2>2, StampedStay
  <2>4. \A s \in StampedReports : \E a \in StampedReports :
            (a = s \/ WrittenOver(s, a)) /\ report[a].at + Interval <= now
    <3>1. SUFFICES ASSUME NEW s \in StampedReports
                   PROVE  \E a \in StampedReports :
                              (a = s \/ WrittenOver(s, a)) /\ report[a].at + Interval <= now
      OBVIOUS
    <3>2. PICK w \in Tasks : WroteLast(w)
      BY DEF LastStamp
    <3>3. w \in StampedReports /\ report[w].at + Interval <= now
      BY <2>1, <3>2 DEF WroteLast, TypeOK
    <3>4. CASE WrittenOver(s, w)
      BY <3>3, <3>4
    <3>5. CASE report[s].at <= lastLog
      <4>1. s \in Tasks
        BY DEF StampedReports
      <4>2. report[s].at + Interval <= now
        BY <2>1, <3>5, <4>1 DEF TypeOK
      <4> QED
        BY <4>2
    <3> QED
      BY <3>2, <3>4, <3>5 DEF WroteLast
  <2>5. FoundOld'
    <3>1. SUFFICES ASSUME NEW u \in Tasks, NEW s \in report'[u].after
                   PROVE  /\ s \in StampedReports /\ report'[s].at <= report'[u].at
                          /\ \E a \in report'[u].after :
                                (a = s \/ WrittenOver(s, a)') /\ report'[a].at + Interval <= report'[u].at
      BY <2>2 DEF FoundOld
    <3>2. \A v \in StampedReports : v \in Tasks /\ report'[v] = report[v]
      BY <2>2 DEF StampedReports
    <3>3. CASE u = t
      BY <2>2, <2>3, <2>4, <3>2, <3>3 DEF LastStamp
    <3>4. CASE u # t
      BY <2>2, <2>3, <3>2, <3>4 DEF FoundOld
    <3> QED
      BY <3>3, <3>4
  <2>6. HeldBack'
    BY <2>1, <2>2 DEF HeldBack, StampedReports, TypeOK
  <2> QED
    BY <2>3, <2>5, <2>6
<1>5. ASSUME NEW t \in Tasks, ReadClock(t) PROVE Throttling'
  <2>1. /\ report[t].pc = "passed" /\ UNCHANGED <<now, lastLog>>
        /\ report' = [report EXCEPT ![t].pc = "read", ![t].at = now, ![t].stamp = now]
    BY <1>5 DEF ReadClock, Stamp
  <2>2. /\ StampedReports' = StampedReports /\ t \notin StampedReports
        /\ \A s \in Tasks \ {t} : report'[s] = report[s]
        /\ report'[t].at = now /\ report'[t].pc = "read" /\ report'[t].stamp = now
        /\ report'[t].after = report[t].after
    BY <2>1 DEF StampedReports, TypeOK
  <2>3. LastStamp'
    BY <2>1, <2>2, StampedStay
  <2>4. FoundOld'
    BY <2>1, <2>2, FoundStays
  <2>5. HeldBack'
    BY <2>1, <2>2 DEF HeldBack, StampedReports, TypeOK
  <2> QED
    BY <2>3, <2>4, <2>5
<1>6. ASSUME NEW t \in Tasks, StampError(t) PROVE Throttling'
  <2>1. /\ report[t].pc = "read" /\ now' = now /\ lastLog' = report[t].at
        /\ report' = [report EXCEPT ![t].pc = "stamped"]
    BY <1>6 DEF StampError, LastStamp
  <2>2. /\ StampedReports' = StampedReports \cup {t} /\ t \notin StampedReports
        /\ \A s \in Tasks : report'[s].at = report[s].at /\ report'[s].after = report[s].after
        /\ \A s \in Tasks : report'[s].pc \in {"read", "throttled"} => report'[s] = report[s]
    BY <2>1 DEF StampedReports, TypeOK
  <2>3. \A s, a \in Tasks : WrittenOver(s, a) <=> WrittenOver(s, a)'
    BY <2>2 DEF WrittenOver
  <2>4. WroteLast(t)'
    <3>1. ASSUME NEW s \in StampedReports, report[t].at < report[s].at PROVE WrittenOver(s, t)
      <4>1. s \in Tasks
        BY DEF StampedReports
      <4>2. ~(report[s].at <= report[t].at)
        BY <3>1, <4>1 DEF TypeOK
      <4> QED
        BY <3>1, <4>2 DEF FoundOld, WrittenOver
    <3>2. \A s \in StampedReports \cup {t} : s \in Tasks /\ report[s].at \in Nat
      BY DEF StampedReports, TypeOK
    <3> QED
      BY <2>1, <2>2, <2>3, <3>1, <3>2 DEF WroteLast
  <2>5. LastStamp'
    BY <2>1, <2>2, <2>4 DEF LastStamp
  <2>6. FoundOld'
    <3>1. \A s \in StampedReports : s \in Tasks
      BY DEF StampedReports
    <3> QED
      BY <2>2, <2>3, <3>1 DEF FoundOld
  <2>7. HeldBack'
    <3>1. \A s \in StampedReports : s \in Tasks /\ s \in StampedReports'
      BY <2>2 DEF StampedReports
    <3> QED
      BY <2>2, <3>1 DEF HeldBack
  <2> QED
    BY <2>5, <2>6, <2>7
<1>7. ASSUME NEW t \in Tasks, NoteStep(t) PROVE UNCHANGED <<now, throttling>>
  BY <1>7 DEF NoteStep, Ask, SkipMuted, PassMute, Sent, SendFails
<1> QED
  BY <1>1, <1>2, <1>3, <1>4, <1>5, <1>6, <1>7 DEF Next, NoteStep, TakePress, MuteOpportunity, Answer,
      Press, LogOpportunity, vars

(* After one error was stamped the next that looks waits for Interval,     *)
(* unless an older stamp is written over it, and none is held back without *)
(* such a stamp.                                                           *)
THEOREM ErrorsAreThrottled == Spec => []ErrorsThrottled
<1>1. TypeOK /\ Throttling /\ [Next]_vars => TypeOK' /\ Throttling'
  BY StepTypes, StepThrottling
<1>2. Throttling => ErrorsThrottled
  BY DEF Throttling, FoundOld, HeldBack, ErrorsThrottled
<1> QED
  BY InitTypes, InitThrottling, <1>1, <1>2, PTL DEF Spec
=============================================================================
