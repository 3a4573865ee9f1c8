------------------------------ MODULE Telegram ------------------------------
(***************************************************************************)
(* TelegramLogger: opportunities and errors become messages in a chat.     *)
(* Every message is the work of a task of its own: the executor spawns one *)
(* per (re)logged opportunity, a follower one per error.  Under a message  *)
(* about an opportunity are buttons that mute its path; the dispatcher of  *)
(* the bot answers the presses one at a time.  Notes and presses share     *)
(* muted_opportunities behind a tokio Mutex, whose guard a note keeps      *)
(* until its message is sent; errors share last_log_time behind another,   *)
(* which is taken once to look and once to write, the clock read between.  *)
(* A path that is reported has been priced, so its tokens and networks     *)
(* are registered and the unwraps of the rendering hold.                   *)
(***************************************************************************)
EXTENDS Naturals, Sequences

CONSTANTS
    Paths,
    MaxTasks,      \* bound: tasks spawned, notes and errors together
    Durations,     \* of the mute buttons
    MaxPresses,    \* bound on the presses of buttons
    Interval,      \* error_log_interval_secs
    MaxNow,        \* bound on the clock
    ToldBefore,    \* of which paths an earlier run has left messages
    None

Tasks == 1 .. MaxTasks
Bot == 0           \* the dispatcher, as a task that asks for the Mutex

ASSUME TelegramAssumption ==
    /\ MaxTasks \in Nat /\ MaxPresses \in Nat /\ Interval \in Nat /\ MaxNow \in Nat
    /\ ToldBefore \subseteq SUBSET Paths
    /\ Durations \subseteq Nat /\ Interval <= MaxNow /\ None \notin Paths

VARIABLES
    now,           \* Instant::now()
    muted,         \* muted_opportunities: path -> expiry
    guard,         \* the tasks at its Mutex in turn; the first holds it
    note,          \* the task of a log_opportunity, and where it stands
    told,          \* paths with a message, and buttons, in the chat
    updates,       \* presses not yet taken from Telegram
    bot,           \* handle_callback_query
    pressed,
    lastLog,       \* last_log_time
    report,        \* the task of a log_error_with_chain_id
    until          \* history: what the last handled press muted a path to

muting == <<muted, guard, note, told, updates, bot, pressed, until>>
throttling == <<lastLog, report>>
vars == <<now, muting, throttling>>

NotePlaces == {"none", "spawned", "waiting", "sending", "sent", "lost", "muted"}
ReportPlaces == {"none", "throttled", "passed", "read", "stamped"}

TypeOK ==
    /\ now \in Nat /\ lastLog \in Nat /\ pressed \in Nat
    /\ until \in [Paths -> Nat]
    /\ DOMAIN muted \subseteq Paths /\ muted \in [DOMAIN muted -> Nat]
    /\ guard \in Seq(Tasks \cup {Bot})
    /\ note \in [Tasks -> [path : Paths \cup {None}, pc : NotePlaces]]
    /\ \A t \in Tasks : note[t].pc \in {"spawned", "waiting", "sending"} => note[t].path \in Paths
    /\ told \subseteq Paths
    /\ updates \in Seq([path : Paths, duration : Durations])
    /\ bot \in [path : Paths \cup {None}, duration : Nat, pc : {"idle", "asking", "answering"}]
    /\ bot.pc = "asking" => bot.path \in Paths
    /\ report \in [Tasks -> [pc : ReportPlaces, at : Nat, stamp : Nat, after : SUBSET Tasks]]

(* A year is longer than any Interval.  Messages of an earlier run keep    *)
(* their buttons; the mutes of that run are forgotten.                     *)
Init ==
    /\ now = Interval /\ lastLog = 0
    /\ muted = <<>> /\ guard = <<>>
    /\ note = [t \in Tasks |-> [path |-> None, pc |-> "none"]]
    /\ told \in ToldBefore
    /\ updates = <<>> /\ pressed = 0
    /\ bot = [path |-> None, duration |-> 0, pc |-> "idle"]
    /\ report = [t \in Tasks |-> [pc |-> "none", at |-> 0, stamp |-> 0, after |-> {}]]
    /\ until = [p \in Paths |-> 0]

Tick ==
    /\ now < MaxNow
    /\ now' = now + 1
    /\ UNCHANGED <<muting, throttling>>

(* tokio::spawn: the next task of the bound. *)
Free(t) == note[t].pc = "none" /\ report[t].pc = "none"
NextFree(t) == Free(t) /\ \A s \in 1 .. t - 1 : ~Free(s)
-----------------------------------------------------------------------------
(* The Mutex of tokio is handed over in the order of asking. *)
QueuedTwice(who) == Append(Append(guard, who), who)
Queued(who) == Append(guard, who)
Holds(who) == guard # <<>> /\ Head(guard) = who
Released(who) == IF Holds(who) THEN Tail(guard) ELSE guard

At(t, place) == note' = [note EXCEPT ![t].pc = place]
End(t, place) == note' = [note EXCEPT ![t] = [path |-> None, pc |-> place]]

(* Executor::log_opportunity and log_opportunity_again *)
LogOpportunity(t, p) ==
    /\ NextFree(t)
    /\ note' = [note EXCEPT ![t] = [path |-> p, pc |-> "spawned"]]
    /\ UNCHANGED <<now, muted, guard, told, updates, bot, pressed, until, throttling>>

Ask(t) ==
    /\ note[t].pc = "spawned"
    /\ guard' = Queued(t)
    /\ At(t, "waiting")
    /\ UNCHANGED <<now, muted, told, updates, bot, pressed, until, throttling>>

Kept == [p \in {q \in DOMAIN muted : muted[q] > now} |-> muted[p]]

GuardDropped(t) == Released(t)
GuardWhileSending(t) == guard

(* Expired mutes are dropped from the map, other paths' too. *)
SkipMuted(t) ==
    /\ note[t].pc = "waiting" /\ Holds(t)
    /\ note[t].path \in DOMAIN Kept
    /\ muted' = Kept
    /\ guard' = Released(t)
    /\ End(t, "muted")
    /\ UNCHANGED <<now, told, updates, bot, pressed, until, throttling>>

PassMute(t) ==
    /\ note[t].pc = "waiting" /\ Holds(t)
    /\ note[t].path \notin DOMAIN Kept
    /\ muted' = Kept
    /\ guard' = GuardWhileSending(t)
    /\ At(t, "sending")
    /\ UNCHANGED <<now, told, updates, bot, pressed, until, throttling>>

(* send_message_with_keyboard: the message appears or is refused. *)
Sent(t) ==
    /\ note[t].pc = "sending"
    /\ End(t, "sent")
    /\ told' = told \cup {note[t].path}
    /\ guard' = Released(t)
    /\ UNCHANGED <<now, muted, updates, bot, pressed, until, throttling>>

SendFails(t) ==
    /\ note[t].pc = "sending"
    /\ End(t, "lost")
    /\ guard' = Released(t)
    /\ UNCHANGED <<now, muted, told, updates, bot, pressed, until, throttling>>

NoteStep(t) == Ask(t) \/ SkipMuted(t) \/ PassMute(t) \/ Sent(t) \/ SendFails(t)
-----------------------------------------------------------------------------
(* A user presses a button of a message, old ones included. *)
Press(p, d) ==
    /\ pressed < MaxPresses /\ p \in told
    /\ pressed' = pressed + 1
    /\ updates' = Append(updates, [path |-> p, duration |-> d])
    /\ UNCHANGED <<now, muted, guard, note, told, bot, until, throttling>>

(* The dispatcher handles the updates of a chat one by one. *)
TakePress ==
    /\ bot.pc = "idle" /\ updates # <<>>
    /\ bot' = [path |-> Head(updates).path, duration |-> Head(updates).duration, pc |-> "asking"]
    /\ updates' = Tail(updates)
    /\ guard' = Queued(Bot)
    /\ UNCHANGED <<now, muted, note, told, pressed, until, throttling>>

MuteOpportunity ==
    /\ bot.pc = "asking" /\ Holds(Bot)
    /\ LET expiry == now + bot.duration
       IN  /\ muted' = [q \in DOMAIN muted \cup {bot.path} |->
                           IF q = bot.path THEN expiry ELSE muted[q]]
           /\ until' = [until EXCEPT ![bot.path] = expiry]
    /\ guard' = Released(Bot)
    /\ bot' = [bot EXCEPT !.pc = "answering"]
    /\ UNCHANGED <<now, note, told, updates, pressed, throttling>>

(* answer_callback_query; an error only reaches the dispatcher's log. *)
Answer ==
    /\ bot.pc = "answering"
    /\ bot' = [path |-> None, duration |-> 0, pc |-> "idle"]
    /\ UNCHANGED <<now, muted, guard, note, told, updates, pressed, until, throttling>>

BotStep == TakePress \/ MuteOpportunity \/ Answer
-----------------------------------------------------------------------------
(* An error whose text is among skip_errors ends its task without effect. *)
StampedReports == {t \in Tasks : report[t].pc = "stamped"}

Throttled == now - lastLog < Interval

ThrottleError(t) ==
    /\ NextFree(t) /\ Throttled
    /\ report' = [report EXCEPT ![t].pc = "throttled", ![t].at = now]
    /\ UNCHANGED <<now, muting, lastLog>>

PassThrottle(t) ==
    /\ NextFree(t) /\ ~Throttled
    /\ report' = [report EXCEPT ![t].pc = "passed", ![t].at = now, ![t].after = StampedReports]
    /\ UNCHANGED <<now, muting, lastLog>>

StampOfCheck(t) == report[t].at
Stamp(t) == now

(* *last_log_time.lock().await = Instant::now(): the right-hand side comes *)
(* first, the clock is read before the Mutex is asked for.                 *)
ReadClock(t) ==
    /\ report[t].pc = "passed"
    /\ report' = [report EXCEPT ![t].pc = "read", ![t].at = now, ![t].stamp = Stamp(t)]
    /\ UNCHANGED <<now, muting, lastLog>>

(* Then it is written, whatever others have written since, and the message *)
(* is sent; whether Telegram takes it or refuses it, the stamp stays.      *)
StampError(t) ==
    /\ report[t].pc = "read"
    /\ lastLog' = report[t].stamp
    /\ report' = [report EXCEPT ![t].pc = "stamped"]
    /\ UNCHANGED <<now, muting>>

Next ==
    \/ Tick \/ TakePress \/ MuteOpportunity \/ Answer
    \/ \E p \in Paths, d \in Durations : Press(p, d)
    \/ \E t \in Tasks :
          \/ \E p \in Paths : LogOpportunity(t, p)
          \/ Ask(t) \/ SkipMuted(t) \/ PassMute(t) \/ Sent(t) \/ SendFails(t)
          \/ ThrottleError(t) \/ PassThrottle(t) \/ ReadClock(t) \/ StampError(t)

Fairness ==
    /\ WF_vars(BotStep)
    /\ \A t \in Tasks : WF_vars(NoteStep(t))

Spec == Init /\ [][Next]_vars
FairSpec == Spec /\ Fairness
-----------------------------------------------------------------------------
(* Properties. *)

(* From the handling of a press to the end of the time it asked for, no    *)
(* message about the path appears, not even of a task that has looked at   *)
(* the list before; and nothing else holds a message back.                 *)
MuteObeyed ==
    \A t \in Tasks :
        /\ note[t].pc = "sending" /\ note'[t].pc = "sent" => until[note[t].path] <= now
        /\ note[t].pc = "waiting" /\ note'[t].pc = "muted" => now < until[note[t].path]
MutesHold == [][MuteObeyed]_vars

(* a was past the check before s was stamped, but its reading of the clock *)
(* is the older of the two: it may be written over that of s.              *)
WrittenOver(s, a) == s \notin report[a].after /\ report[a].at < report[s].at

(* An error that comes after another was stamped is sent no sooner than    *)
(* Interval after it, however long the tasks take in between, unless an    *)
(* older stamp was written over it, which then lies Interval back.  One    *)
(* that is held back follows a stamp within Interval.                      *)
ErrorsThrottled ==
    \A t \in Tasks :
        /\ report[t].pc \in {"read", "stamped"} => \A s \in report[t].after :
               \E a \in report[t].after :
                   /\ a = s \/ WrittenOver(s, a)
                   /\ report[a].at + Interval <= report[t].at
        /\ report[t].pc = "throttled" =>
               \E s \in StampedReports :
                   report[s].at <= report[t].at /\ report[t].at < report[s].at + Interval

NoteEnded(t) == note[t].pc \in {"sent", "lost", "muted"}
Answered == pressed - Len(updates) - (IF bot.pc = "idle" THEN 0 ELSE 1)

(* Everyone gets the Mutex in the end: a note that was logged is sent,     *)
(* lost or muted, a press is answered, while a slow send keeps the guard.  *)
NothingPends ==
    /\ \A t \in Tasks : note[t].pc = "spawned" ~> NoteEnded(t)
    /\ \A k \in 1 .. MaxPresses : pressed >= k ~> Answered >= k
=============================================================================
