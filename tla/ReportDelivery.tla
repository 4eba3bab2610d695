--------------------------- MODULE ReportDelivery ---------------------------
(***************************************************************************)
(* Memory reports and their Telegram digests: the report worker and the    *)
(* commands of src-tauri/src/memory.rs over the receipts of                *)
(* crates/store/src/memory.rs.                                             *)
(*                                                                         *)
(* Runs are one revision family: run 1 and what regenerate_memory_report   *)
(* made of it.  A delivery is one receipt row of the destination telegram  *)
(* with a chunk, numbered in the order of its creation; a run's receipts   *)
(* without a chunk (skipped) are the flag run[r].skipped.  The commands    *)
(* hold the control lock for their whole length and are one step each; the *)
(* worker holds it only to claim a run and to dispatch a chunk.            *)
(* Telegram is external: it accepts a message or not, and the answer is    *)
(* lost or not.                                                            *)
(***************************************************************************)
EXTENDS Naturals, Sequences, FiniteSets

CONSTANTS
    Chats,          \* Telegram chats
    NumChunks,      \* chunks of a digest
    Retries,        \* automatic retries of a chunk after its first attempt (3)
    MaxRuns,        \* bound: the base run and its regenerations
    MaxDeliveries,  \* bound: receipts
    MaxEvents,      \* bound: commands, crashes and store calls that fail
    Faulty          \* whether crashes and failing store calls happen

ASSUME ReportAssumption ==
    /\ NumChunks \in Nat \ {0} /\ Retries \in Nat /\ MaxRuns \in Nat \ {0}
    /\ MaxDeliveries \in Nat /\ MaxEvents \in Nat /\ Faulty \in BOOLEAN

VARIABLES
    telegram,   \* memory.telegram.enabled and chat_id
    run,        \* Runs -> the report run
    delivery,   \* the Telegram receipts, in the order of creation
    reporter,   \* the report worker
    settled,    \* inference_settled
    accepted,   \* Deliveries -> messages Telegram accepted for it
    lost,       \* history: accepted, and the receipt's update failed
    halfway,    \* history: runs a failing store call left half way
    events      \* commands, crashes and failing store calls so far

reportVars == <<telegram, run, delivery, reporter, settled, accepted, lost, halfway, events>>

Runs == 1..MaxRuns
Chunks == 1..NumChunks
Deliveries == 1..MaxDeliveries

Absent == [phase |-> "absent", outcome |-> "none", skipped |-> FALSE, of |-> 0,
           enabled |-> FALSE, chat |-> "none"]
NoWork == [pc |-> "idle", run |-> 0, todo |-> {}, item |-> 0]

\* runtime.active
Active == reporter # NoWork

Receipts(r) == {i \in DOMAIN delivery : delivery[i].run = r}

Intent(r, chunk, chat, of) ==
    [run |-> r, chunk |-> chunk, chat |-> chat, of |-> of, state |-> "Pending", attempt |-> 0,
     due |-> FALSE]

HasResult(r) == run[r].outcome \in {"deliver", "nodata"}

\* The runs r is a revision of.
Ancestors(r) ==
    LET above[a \in 0..MaxRuns] == IF a = 0 THEN {} ELSE {run[a].of} \cup above[run[a].of]
    IN above[r] \ {0}

\* ancestor_delivery_block: the family has a confirmed or unknown delivery, or
\* an earlier revision has one under way.
FamilyBlocks(r) ==
    \E i \in DOMAIN delivery :
        \/ delivery[i].run # r /\ delivery[i].state \in {"Succeeded", "UnknownDelivery"}
        \/ delivery[i].run \in Ancestors(r) /\ delivery[i].state \in {"Pending", "Sending"}

SetState(i, state) == [delivery EXCEPT ![i].state = state]
Rests == reporter' = NoWork
Act == events < MaxEvents /\ events' = events + 1
Trouble == Faulty /\ Act

-----------------------------------------------------------------------------
(* The worker *)

\* claim_report_run; a run that has yet to be generated waits for inference.
Claim(r) ==
    /\ ~Active
    /\ run[r].phase = "queued"
    /\ HasResult(r) \/ settled
    /\ run' = [run EXCEPT ![r].phase = "running"]
    /\ reporter' = [NoWork EXCEPT !.pc = "generate", !.run = r]
    /\ UNCHANGED <<telegram, delivery, settled, accepted, lost, halfway, events>>

\* generate, and the run saved: a result is generated once and kept.
Generate ==
    LET r == reporter.run
    IN /\ reporter.pc = "generate"
       /\ \E outcome \in IF HasResult(r) THEN {run[r].outcome}
                         ELSE {"deliver", "nodata", "blocked", "failed"} :
            run' = [run EXCEPT ![r].outcome = outcome,
                               ![r].phase = IF outcome = "blocked" THEN "blocked" ELSE "finished"]
       /\ reporter' = [reporter EXCEPT !.pc = "open"]
       /\ UNCHANGED <<telegram, delivery, settled, accepted, lost, halfway, events>>

\* A saved report whose files or digest have work left.
Resume(r) ==
    /\ ~Active
    /\ HasResult(r) /\ run[r].phase # "queued"
    /\ \/ Receipts(r) = {}
       \/ \E i \in Receipts(r) : delivery[i].state = "Pending"
                                   \/ (delivery[i].state = "Failed" /\ delivery[i].due)
    /\ reporter' = [NoWork EXCEPT !.pc = "open", !.run = r]
    /\ UNCHANGED <<telegram, run, delivery, settled, accepted, lost, halfway, events>>

\* deliver_telegram: a digest that will not be sent is recorded as skipped; the
\* intents of one that will are created together.  The receipts are listed;
\* one that is unknown in that list ends it.
DeliverOpen ==
    LET r == reporter.run
        eligible == run[r].enabled /\ run[r].outcome = "deliver"
        fresh == Receipts(r) = {} /\ (eligible \/ ~run[r].skipped)
        send == eligible /\ ~FamilyBlocks(r)
        check(todo) == reporter' = [reporter EXCEPT !.pc = "check", !.todo = todo]
    IN /\ reporter.pc = "open"
       /\ \/ /\ fresh /\ ~send
             /\ run' = [run EXCEPT ![r].skipped = TRUE]
             /\ Rests
             /\ UNCHANGED delivery
          \/ /\ fresh /\ send
             /\ Len(delivery) + NumChunks <= MaxDeliveries
             /\ delivery' = delivery \o [c \in Chunks |-> Intent(r, c, run[r].chat, 0)]
             /\ check((Len(delivery) + 1)..(Len(delivery) + NumChunks))
             /\ UNCHANGED run
          \/ /\ ~fresh
             /\ IF \E i \in Receipts(r) : delivery[i].state = "UnknownDelivery" THEN Rests
                ELSE check(Receipts(r))
             /\ UNCHANGED <<run, delivery>>
       /\ UNCHANGED <<telegram, settled, accepted, lost, halfway, events>>

\* Nothing is sent while Telegram is off.
DeliverCheck ==
    /\ reporter.pc = "check"
    /\ IF telegram.enabled THEN reporter' = [reporter EXCEPT !.pc = "next"] ELSE Rests
    /\ UNCHANGED <<telegram, run, delivery, settled, accepted, lost, halfway, events>>

\* The listed receipts in the order they are sent: by chunk, then by age.
FirstOf(todo) ==
    CHOOSE i \in todo : \A j \in todo :
        \/ delivery[i].chunk < delivery[j].chunk
        \/ delivery[i].chunk = delivery[j].chunk /\ i <= j

\* Mutant of MayDispatch: a revision is sent whatever its family has confirmed.
MayDispatchRevision(i) == telegram = [enabled |-> TRUE, chat |-> delivery[i].chat]

\* The chunk's own chat is selected, and the family does not block an original.
MayDispatch(i) ==
    /\ telegram = [enabled |-> TRUE, chat |-> delivery[i].chat]
    /\ delivery[i].of = 0 => ~FamilyBlocks(delivery[i].run)

\* The loop takes the next chunk: finished ones are passed over; the first that
\* cannot be sent now ends it.
DeliverNext ==
    LET i == FirstOf(reporter.todo)
        go == [reporter EXCEPT !.todo = @ \ {i}]
        waits == delivery[i].state = "Failed"
        over == delivery[i].state \in {"Succeeded", "Skipped", "Reviewed"}
    IN /\ reporter.pc = "next"
       /\ \/ /\ reporter.todo = {} /\ Rests
             /\ UNCHANGED delivery
          \/ /\ reporter.todo # {} /\ over /\ reporter' = go
             /\ UNCHANGED delivery
          \/ /\ reporter.todo # {} /\ ~over /\ Rests
             /\ waits \/ ~MayDispatch(i)
             /\ UNCHANGED delivery
          \/ /\ reporter.todo # {} /\ ~over
             /\ waits => delivery[i].due
             /\ MayDispatch(i)
             /\ \/ reporter' = [go EXCEPT !.pc = "lock", !.item = i] /\ UNCHANGED delivery
                \/ /\ Rests
                   /\ delivery' = [delivery EXCEPT ![i].state = "Failed", ![i].due = FALSE]
       /\ UNCHANGED <<telegram, run, settled, accepted, lost, halfway, events>>

\* Under the control lock: the settings once more, then Sending, durably.
Dispatch ==
    LET i == reporter.item
    IN /\ reporter.pc = "lock"
       /\ \/ /\ telegram # [enabled |-> TRUE, chat |-> delivery[i].chat]
             /\ Rests
             /\ UNCHANGED delivery
          \/ /\ telegram = [enabled |-> TRUE, chat |-> delivery[i].chat]
             /\ delivery' = [delivery EXCEPT ![i].state = "Sending", ![i].attempt = @ + 1,
                                             ![i].due = FALSE]
             /\ reporter' = [reporter EXCEPT !.pc = "sent"]
       /\ UNCHANGED <<telegram, run, settled, accepted, lost, halfway, events>>

\* Telegram accepts the message.
Accepts ==
    /\ reporter.pc = "sent"
    /\ accepted' = [accepted EXCEPT ![reporter.item] = @ + 1]
    /\ reporter' = [reporter EXCEPT !.pc = "accepted"]
    /\ UNCHANGED <<telegram, run, delivery, settled, lost, halfway, events>>

\* send_chunk came back and its outcome is saved.  Only what Telegram rejected
\* in so many words is a failure; whatever else is not a confirmation is unknown.
Answered(outcome) ==
    LET i == reporter.item
    IN /\ \/ outcome = "Confirmed" /\ reporter.pc = "accepted"
          \/ outcome \in {"Permanent", "Retryable"} /\ reporter.pc = "sent"
          \/ outcome = "Unknown" /\ reporter.pc \in {"sent", "accepted"}
       /\ delivery' = [delivery EXCEPT
              ![i].state = CASE outcome = "Confirmed" -> "Succeeded"
                             [] outcome = "Unknown" -> "UnknownDelivery"
                             [] OTHER -> "Failed",
              ![i].due = outcome = "Retryable" /\ delivery[i].attempt <= Retries]
       /\ reporter' = IF outcome = "Confirmed" THEN [reporter EXCEPT !.pc = "next", !.item = 0]
                      ELSE NoWork
       /\ UNCHANGED <<telegram, run, settled, accepted, lost, halfway, events>>

\* A store call of the worker fails: it gives up where it is.
StoreFault ==
    /\ Active
    /\ Trouble
    /\ Rests
    /\ lost' = IF reporter.pc = "accepted" THEN lost \cup {reporter.item} ELSE lost
    /\ halfway' = IF reporter.pc \in {"sent", "accepted"} THEN halfway \cup {reporter.run} ELSE halfway
    /\ UNCHANGED <<telegram, run, delivery, settled, accepted>>

-----------------------------------------------------------------------------
(* The commands *)

\* set_memory_settings
SetMemorySettings ==
    /\ Act
    /\ telegram' \in [enabled : BOOLEAN, chat : Chats] \ {telegram}
    /\ UNCHANGED <<run, delivery, reporter, settled, accepted, lost, halfway>>

Idling(r) == ~Active /\ run[r].phase \in {"blocked", "finished"}

\* Mutant of Stale: a chunk that was confirmed in another chat stays there.
StaleUnconfirmed(r) == {i \in Receipts(r) : /\ delivery[i].state \in {"Pending", "Failed"}
                                            /\ delivery[i].chat # telegram.chat}

\* redirect_stale_telegram_deliveries: receipts addressed to another chat than
\* the selected one.
Stale(r) == {i \in Receipts(r) : /\ delivery[i].state \in {"Pending", "Failed", "Succeeded"}
                                 /\ delivery[i].chat # telegram.chat}

\* Such a receipt gets a linked successor, unless one is live already or the
\* chunk is confirmed in the selected chat.
NeedsSuccessor(i) ==
    /\ ~\E j \in Receipts(delivery[i].run) :
           delivery[j].of = i /\ delivery[j].state \notin {"Reviewed", "Skipped"}
    /\ ~\E j \in Receipts(delivery[i].run) :
           /\ delivery[j].chunk = delivery[i].chunk /\ delivery[j].state = "Succeeded"
           /\ delivery[j].chat = telegram.chat

\* The n-th smallest of a set of numbers.
Nth(S, n) == CHOOSE x \in S : Cardinality({y \in S : y <= x}) = n

\* Of the stale receipts, those in made have their successor and those in
\* reviewed are retired: a successor is created before its receipt is retired.
Redirected(made, reviewed) ==
    LET needs == {i \in made : NeedsSuccessor(i)}
        successor(i) == Intent(delivery[i].run, delivery[i].chunk, telegram.chat, i)
    IN [k \in 1..(Len(delivery) + Cardinality(needs)) |->
          IF k > Len(delivery) THEN successor(Nth(needs, k - Len(delivery)))
          ELSE IF k \in reviewed /\ delivery[k].state # "Succeeded"
          THEN [delivery[k] EXCEPT !.state = "Reviewed"] ELSE delivery[k]]

\* retry_memory_report: stale receipts are redirected, failed ones are pending
\* again and the run is queued.
RetryMemoryReport(r) ==
    LET redirected == Redirected(Stale(r), Stale(r))
    IN /\ Act
       /\ Idling(r)
       /\ Len(redirected) <= MaxDeliveries
       /\ delivery' = [i \in DOMAIN redirected |->
              IF redirected[i].run = r /\ redirected[i].state = "Failed"
              THEN [redirected[i] EXCEPT !.state = "Pending", !.due = FALSE] ELSE redirected[i]]
       /\ run' = [run EXCEPT ![r].phase = "queued",
                             ![r].outcome = IF HasResult(r) THEN @ ELSE "none"]
       /\ halfway' = IF \E i \in Receipts(r) : delivery[i].state \in {"Sending", "UnknownDelivery"}
                     THEN halfway ELSE halfway \ {r}
       /\ UNCHANGED <<telegram, reporter, settled, accepted, lost>>

\* It stops after a receipt's successor was made, or after it was retired too: a
\* store call failed.
RetryFails(r) ==
    /\ Trouble
    /\ Idling(r)
    /\ \E made \in SUBSET Stale(r) : \E reviewed \in {made} \cup {made \ {i} : i \in made} :
         /\ Len(Redirected(made, reviewed)) <= MaxDeliveries
         /\ delivery' = Redirected(made, reviewed)
    /\ delivery' # delivery
    /\ halfway' = halfway \cup {r}
    /\ UNCHANGED <<telegram, run, reporter, settled, accepted, lost>>

\* regenerate_memory_report
RegenerateMemoryReport(r) ==
    /\ Act
    /\ Idling(r)
    /\ \E n \in Runs :
         /\ run[n] = Absent /\ \A k \in Runs : k < n => run[k] # Absent
         /\ run' = [run EXCEPT ![n] = [Absent EXCEPT !.phase = "queued", !.of = r,
                        !.enabled = telegram.enabled, !.chat = telegram.chat]]
    /\ UNCHANGED <<telegram, delivery, reporter, settled, accepted, lost, halfway>>

\* resolve_telegram_delivery: one transaction, whether or not the worker is active.
ResolveTelegramDelivery(i, resend) ==
    /\ Act
    /\ delivery[i].state = "UnknownDelivery"
    /\ resend => Len(delivery) < MaxDeliveries
    /\ delivery' = SetState(i, "Reviewed") \o
           (IF resend THEN <<Intent(delivery[i].run, delivery[i].chunk, delivery[i].chat, i)>>
            ELSE <<>>)
    /\ UNCHANGED <<telegram, run, reporter, settled, accepted, lost, halfway>>

-----------------------------------------------------------------------------
(* Start and crash *)

MarkInferenceSettled ==
    /\ ~settled
    /\ settled' = TRUE
    /\ UNCHANGED <<telegram, run, delivery, reporter, accepted, lost, halfway, events>>

\* Mutant of Recovered: an interrupted delivery is pending again.
RecoveredPending(i) == IF delivery[i].state = "Sending" THEN "Pending" ELSE delivery[i].state

\* recover_report_work, of a receipt.
Recovered(i) == IF delivery[i].state = "Sending" THEN "UnknownDelivery" ELSE delivery[i].state

\* The process dies, is killed or gives up waiting for its worker, and starts
\* again.
Crash ==
    /\ Trouble
    /\ run' = [r \in Runs |-> IF run[r].phase = "running" THEN [run[r] EXCEPT !.phase = "queued"]
                              ELSE run[r]]
    /\ delivery' = [i \in DOMAIN delivery |-> [delivery[i] EXCEPT !.state = Recovered(i)]]
    /\ Rests
    /\ settled' = FALSE
    /\ UNCHANGED <<telegram, accepted, lost, halfway>>

-----------------------------------------------------------------------------
ReportInit ==
    /\ telegram \in [enabled : {TRUE}, chat : Chats]
    /\ run = [r \in Runs |-> IF r = 1 THEN [Absent EXCEPT !.phase = "queued", !.enabled = TRUE,
                                                          !.chat = telegram.chat] ELSE Absent]
    /\ delivery = <<>>
    /\ reporter = NoWork
    /\ settled = FALSE
    /\ accepted = [i \in Deliveries |-> 0]
    /\ lost = {} /\ halfway = {} /\ events = 0

ReportNext ==
    \/ \E r \in Runs : \/ Claim(r) \/ Resume(r) \/ RetryMemoryReport(r) \/ RetryFails(r)
                       \/ RegenerateMemoryReport(r)
    \/ Generate \/ DeliverOpen \/ DeliverCheck \/ DeliverNext \/ Dispatch \/ Accepts
    \/ \E outcome \in {"Confirmed", "Unknown", "Permanent", "Retryable"} : Answered(outcome)
    \/ StoreFault \/ SetMemorySettings \/ MarkInferenceSettled \/ Crash
    \/ \E i \in DOMAIN delivery : \E resend \in BOOLEAN : ResolveTelegramDelivery(i, resend)

ReportSpec == ReportInit /\ [][ReportNext]_reportVars

-----------------------------------------------------------------------------
(* Properties *)

ReportTypeOK ==
    /\ telegram \in [enabled : BOOLEAN, chat : Chats]
    /\ run \in [Runs -> [phase : {"absent", "queued", "running", "blocked", "finished"},
                         outcome : {"none", "deliver", "nodata", "blocked", "failed"},
                         skipped : BOOLEAN, of : 0..MaxRuns, enabled : BOOLEAN,
                         chat : Chats \cup {"none"}]]
    /\ delivery \in Seq([run : Runs, chunk : Chunks, chat : Chats, of : 0..MaxDeliveries,
                         state : {"Pending", "Sending", "Succeeded", "Failed", "Reviewed",
                                  "UnknownDelivery"},
                         attempt : 0..(Retries + MaxEvents + 1), due : BOOLEAN])
    /\ Len(delivery) <= MaxDeliveries
    /\ reporter.todo \subseteq DOMAIN delivery /\ reporter.item \in 0..Len(delivery)
    /\ settled \in BOOLEAN /\ accepted \in [Deliveries -> Nat] /\ lost \subseteq Deliveries
    /\ halfway \subseteq Runs
    /\ events \in 0..MaxEvents

\* The step writes a Sending receipt: the chunk goes out.
Dispatches(i) == delivery[i].state # "Sending" /\ delivery'[i].state = "Sending"

\* A message Telegram accepted is never sent again under the same receipt, by a
\* retry, a crash or a lost answer: it is Succeeded, or unknown until the user
\* decides.  Receipts whose confirmation the store refused to save are left out:
\* they stay Sending and the next chunk's delivery sends them again (memory.rs:1611).
AcceptedOnce == \A i \in Deliveries : i \notin lost => accepted[i] <= 1

\* A chat gets the chunks of a digest in order: when one goes out, every earlier
\* one was confirmed there or is one the user decided about, also across
\* redirections to another chat and back.  Runs left half way are left out until
\* a retry finds every receipt settled: receipts are redirected in no order
\* (memory.rs:495), the worker sends what there is before the user retries, and
\* a receipt left Sending is not redirected with its digest (memory.rs:495), so
\* that its chunk goes to the old chat and the next one to the new.
DigestInOrder ==
    [][ \A i \in DOMAIN delivery : Dispatches(i) /\ delivery[i].run \notin halfway =>
            \A c \in 1..(delivery[i].chunk - 1) : \E j \in Receipts(delivery[i].run) :
                /\ delivery[j].chunk = c
                /\ \/ delivery[j].state = "Succeeded" /\ delivery[j].chat = delivery[i].chat
                   \/ delivery[j].state = "Reviewed" ]_reportVars

\* Of a revision family one digest is confirmed: no original chunk goes out once
\* another revision has a confirmed or an unknown one (memory.rs:1636).
FamilyDeliversOnce ==
    [][ \A i \in DOMAIN delivery : Dispatches(i) /\ delivery[i].of = 0 =>
            ~\E j \in DOMAIN delivery : /\ delivery[j].run # delivery[i].run
                                        /\ delivery[j].state \in {"Succeeded", "UnknownDelivery"}
      ]_reportVars

\* "an explicit retry never repeats a confirmed delivery" (memory.rs:480): a
\* chunk does not go out to a chat in which it is confirmed.
ConfirmedNotRepeated ==
    [][ \A i \in DOMAIN delivery : Dispatches(i) =>
            ~\E j \in Receipts(delivery[i].run) :
                /\ delivery[j].chunk = delivery[i].chunk /\ delivery[j].chat = delivery[i].chat
                /\ delivery[j].state = "Succeeded" ]_reportVars
=============================================================================
