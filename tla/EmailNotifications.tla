------------------------ MODULE EmailNotifications ------------------------
(***************************************************************************)
(* internal/notification/email: EmailEventSubscriber turns events into     *)
(* emails, EmailHandler does it for API requests, EmailService sends them  *)
(* through the Brevo client and logs each attempt in the repository, which *)
(* the API lists. A sender is a goroutine of the event bus or of the HTTP  *)
(* server. The mail provider is external: it may accept a message and its  *)
(* answer may still be lost.                                               *)
(***************************************************************************)
EXTENDS Integers, Sequences, FiniteSets

CONSTANTS
    MailSender,         \* goroutines that send
    MailEvents,         \* events: [type, id, to]; id = "" when it is missing
    MailRequests,       \* bodies: [valid, template, to]
    MailFilters,        \* query strings: [status, to, limit, offset]
    MaxMails            \* bound: messages posted to the provider

MailAssumption ==
    /\ MaxMails \in Nat
    /\ \A f \in MailFilters : f.limit \in Int /\ f.offset \in Int

VARIABLES
    mailing,        \* mailing[s]: the call of sender s
    provider,       \* messages that the provider accepted
    emails,         \* MemoryEmailRepository.emails, a set of entries
    posted,         \* messages posted so far; numbers them
    lost,           \* messages accepted whose answer did not arrive
    listing         \* the last answer of ListEmails, with its filter

mailVars == <<mailing, provider, emails, posted, lost, listing>>

Idle == [pc |-> "idle", from |-> "none", template |-> "none", to |-> {}, message |-> 0, result |-> "none"]
NoListing == [filter |-> [status |-> "", to |-> "", limit |-> 0, offset |-> 0], entries |-> {}, matching |-> 0]

MailInit ==
    /\ mailing = [s \in MailSender |-> Idle] /\ provider = {} /\ emails = {} /\ posted = 0 /\ lost = {}
    /\ listing = NoListing

\* The templates that NewRegistry registers
Templates == {"workflow_completed", "workflow_failed", "job_completed", "job_failed", "test_results_summary", "welcome"}
Statuses == {"sent", "failed"}

MailTypeOK ==
    /\ \A s \in MailSender : mailing[s].pc \in {"idle", "send", "posted", "done"} /\ mailing[s].message \in 0..MaxMails
    /\ \A e \in emails : e.status \in Statuses /\ e.id \in 1..MaxMails
    /\ posted \in 0..MaxMails /\ lost \subseteq 1..MaxMails

(***************************************************************************)
(* Events and requests                                                     *)
(***************************************************************************)

\* Handle with the five handlers, and the template that the service takes
\* for each of them; "none" for an event that is not handled
TemplateOf(type) ==
    CASE type = "workflow.completed" -> "workflow_completed"
      [] type = "workflow.failed" -> "workflow_failed"
      [] type = "job.completed" -> "job_completed"
      [] type = "job.failed" -> "job_failed"
      [] type = "test.suite.completed" -> "test_results_summary"
      [] OTHER -> "none"

ToSend(from, template, to) == [Idle EXCEPT !.pc = "send", !.from = from, !.template = template, !.to = to]
Answered(from, result) == [Idle EXCEPT !.pc = "done", !.from = from, !.result = result]

\* Without an ID, or without recipients, there is nothing to send; an error
\* of the resolver is logged and nil is answered.
NothingToSend(e, resolved) == e.id = "" \/ ~resolved \/ e.to = {}

HandleEvent(s, e) ==
    LET template == TemplateOf(e.type) IN
    /\ mailing[s].pc = "idle"
    /\ \E resolved \in BOOLEAN :
         mailing' = [mailing EXCEPT ![s] = IF template = "none" \/ NothingToSend(e, resolved)
                                           THEN Answered("event", "nil") ELSE ToSend("event", template, e.to)]
    /\ UNCHANGED <<provider, emails, posted, lost, listing>>

\* SendEmail of the handler and SendCustomEmail
HandleRequest(s, r) ==
    /\ mailing[s].pc = "idle"
    /\ mailing' = [mailing EXCEPT ![s] = IF ~r.valid THEN Answered("request", "400")
                                         ELSE IF r.template \notin Templates THEN Answered("request", "500")
                                         ELSE ToSend("request", r.template, r.to)]
    /\ UNCHANGED <<provider, emails, posted, lost, listing>>

(***************************************************************************)
(* Sending and logging                                                     *)
(***************************************************************************)

\* SendTransactionalEmail: what the call gives for each answer; "cut" is an
\* answer that does not decode, "none" one that did not come in time.
\* Wrong on purpose: any status is taken for a success.
AnyStatus(answer) == answer \notin {"cut", "none"}
SendSucceeds(answer) == answer \in {"201", "202"}

\* The provider takes the message or not, and answers or not.
ProviderAnswers(took) == IF took THEN {"201", "202", "cut", "none"} ELSE {"400", "500", "none"}

Post(s) ==
    /\ mailing[s].pc = "send" /\ posted < MaxMails
    /\ posted' = posted + 1
    /\ \E took \in BOOLEAN : \E answer \in ProviderAnswers(took) :
         /\ provider' = IF took THEN provider \cup {[id |-> posted', template |-> mailing[s].template, to |-> mailing[s].to]} ELSE provider
         /\ lost' = IF took /\ ~SendSucceeds(answer) THEN lost \cup {posted'} ELSE lost
         /\ mailing' = [mailing EXCEPT ![s].pc = "posted", ![s].message = posted', ![s].result = IF SendSucceeds(answer) THEN "ok" ELSE "error"]
    /\ UNCHANGED <<emails, listing>>

\* logEmailSuccess, logEmailFailure; SaveEmail of the memory repository takes
\* every entry that has an ID. A failure is logged without a message ID and
\* without a template type.
LogEntry(m) ==
    IF m.result = "ok" THEN [id |-> m.message, status |-> "sent", message |-> m.message, template |-> m.template, to |-> m.to]
    ELSE [id |-> m.message, status |-> "failed", message |-> 0, template |-> "none", to |-> m.to]

LogEmail(s) ==
    LET m == mailing[s]
        result == CASE m.result = "ok" /\ m.from = "event" -> "nil"
                    [] m.result = "ok" /\ m.from = "request" -> "202"
                    [] m.result = "error" /\ m.from = "event" -> "error"
                    [] m.result = "error" /\ m.from = "request" -> "500"
    IN /\ m.pc = "posted"
       /\ emails' = emails \cup {LogEntry(m)}
       /\ mailing' = [mailing EXCEPT ![s].pc = "done", ![s].result = result]
       /\ UNCHANGED <<provider, posted, lost, listing>>

FinishSend(s) ==
    /\ mailing[s].pc = "done" /\ mailing' = [mailing EXCEPT ![s] = Idle]
    /\ UNCHANGED <<provider, emails, posted, lost, listing>>

(***************************************************************************)
(* Listing                                                                 *)
(***************************************************************************)

MatchesFilter(e, f) == (f.status = "" \/ e.status = f.status) /\ (f.to = "" \/ f.to \in e.to)
\* The handler's limit: 20 unless the query has a number between 1 and 100.
LimitOf(f) == IF f.limit > 0 /\ f.limit <= 100 THEN f.limit ELSE 20
OffsetOf(f) == IF f.offset >= 0 THEN f.offset ELSE 0
\* How many of n entries a page holds
Least(a, b) == IF a < b THEN a ELSE b
PageLength(n, f) == IF OffsetOf(f) >= n THEN 0 ELSE Least(LimitOf(f), n - OffsetOf(f))

\* ListEmails ranges over a map: which of the entries come first is open.
ListEmails(f) ==
    LET all == {e \in emails : MatchesFilter(e, f)} IN
    /\ \E page \in SUBSET all : Cardinality(page) = PageLength(Cardinality(all), f)
         /\ listing' = [filter |-> f, entries |-> page, matching |-> Cardinality(all)]
    /\ UNCHANGED <<mailing, provider, emails, posted, lost>>

MailNext ==
    \/ \E s \in MailSender : \/ \E e \in MailEvents : HandleEvent(s, e)
                             \/ \E r \in MailRequests : HandleRequest(s, r)
                             \/ Post(s) \/ LogEmail(s) \/ FinishSend(s)
    \/ \E f \in MailFilters : ListEmails(f)

MailSpec == MailInit /\ [][MailNext]_mailVars

(***************************************************************************)
(* What the log says                                                       *)
(***************************************************************************)

\* The log tells what became of the messages: an entry "sent" is a message
\* that the provider has, to the recipients it has; each message that the
\* provider has is logged as sent, once its sender is through, unless its
\* answer was lost, which alone makes a delivered message count as failed;
\* and a first page that its limit did not cut short holds every entry that
\* the filter lets through.
LogTellsMail ==
    /\ MailTypeOK
    /\ \A e \in emails : e.status = "sent" => \E m \in provider : m.id = e.message /\ m.to = e.to /\ m.template = e.template
    /\ \A m \in provider :
         \/ \E e \in emails : e.status = "sent" /\ e.message = m.id
         \/ m.id \in lost
         \/ \E s \in MailSender : mailing[s].pc = "posted" /\ mailing[s].message = m.id
    /\ \A s \in MailSender : mailing[s].pc = "done" /\ mailing[s].result = "202" => \E m \in provider : m.id = mailing[s].message
    /\ Cardinality(listing.entries) < LimitOf(listing.filter) /\ OffsetOf(listing.filter) = 0
         => Cardinality(listing.entries) = listing.matching
=============================================================================
