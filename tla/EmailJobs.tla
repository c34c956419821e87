----------------------------- MODULE EmailJobs -----------------------------
(***************************************************************************)
(* The email plugin: an event of the shop reaches the subscription of each *)
(* handler, the handler turns it into the details of a mail, a job carries *)
(* them to the processor, and the processor generates the mail, sends it   *)
(* and publishes an EmailSendEvent.  Every await is a step of its own.     *)
(*                                                                         *)
(* The event bus, the job queue and the mail server are outside the        *)
(* repository: publishing awaits the blocking subscribers, and a job whose *)
(* process function rejects is run again until its retries are used up.    *)
(***************************************************************************)
EXTENDS Integers, FiniteSets

CONSTANTS
    Events,         \* occurrences of events
    EmailHandlers,  \* handlers of that kind of event, each with loadData
    Channels,       \* channels of the shop, each with its own mail server
    Retries,        \* retries of a job: 5 in the code
    None,           \* nothing loaded, no transport
    MaxFaults       \* bound: calls that fail, processes that stop

VARIABLES
    boot,           \* how far onApplicationBootstrap has come in the server
    channel,        \* of every event that has occurred
    data,           \* event.data: the handler whose loadData wrote it last
    details,        \* the local state of handle, for every event and handler
    job,            \* the job for every event and handler; history: attempts cut off
    transport,      \* the sender's transport: the channel it was created for
    sent,           \* mails that left: how often, and through which transports
    announced,      \* EmailSendEvents published: successes and failures
    faults,         \* faults so far
    excused         \* history: event and handler whose mail may be missing or doubled

vars == <<boot, channel, data, details, job, transport, sent, announced, faults, excused>>

Mails == Events \X EmailHandlers

DetailSteps == {"none", "load", "subject", "vars", "attachments", "queue", "done"}
JobSteps == {"none", "pending", "send", "announce", "announceFailure", "completed", "failed"}

Init ==
    /\ boot = "starting"
    /\ channel = [e \in Events |-> None]
    /\ data = [e \in Events |-> None]
    /\ details = [m \in Mails |-> [step |-> "none", used |-> {}]]
    /\ job = [m \in Mails |-> [step |-> "none", attempts |-> 0, cut |-> 0]]
    /\ transport = None
    /\ sent = [m \in Mails |-> [times |-> 0, through |-> {}]]
    /\ announced = [m \in Mails |-> [success |-> 0, failure |-> 0]]
    /\ faults = 0
    /\ excused = [lost |-> {}, repeated |-> {}]

Fault ==
    /\ faults < MaxFaults
    /\ faults' = faults + 1

Lost(set) == excused' = [excused EXCEPT !.lost = @ \cup set]
Repeated(m) == excused' = [excused EXCEPT !.repeated = @ \cup {m}]

-----------------------------------------------------------------------------
(* EmailPlugin.                                                             *)

\* setupEventSubscribers; what follows awaits the transport and the queue.
Subscribe ==
    /\ boot = "starting"
    /\ boot' = "subscribed"
    /\ UNCHANGED <<channel, data, details, job, transport, sent, announced, faults, excused>>

CreateQueue ==
    /\ boot = "subscribed"
    /\ boot' = "ready"
    /\ UNCHANGED <<channel, data, details, job, transport, sent, announced, faults, excused>>

\* An event occurs. handleEvent runs for every handler, and the handlers whose
\* filters accept the event go on.
Occur(e, c, accepting) ==
    /\ channel[e] = None
    /\ boot # "starting"
    /\ channel' = [channel EXCEPT ![e] = c]
    /\ details' = [m \in Mails |-> IF m[1] = e /\ m[2] \in accepting
                                   THEN [step |-> "load", used |-> {}] ELSE details[m]]
    /\ UNCHANGED <<boot, data, job, transport, sent, announced, faults, excused>>

Goto(m, step) == details' = [details EXCEPT ![m].step = step]

\* event.data = await loadDataFn(...): the event is shared by the handlers.
LoadData(m) ==
    /\ details[m].step = "load"
    /\ data' = [data EXCEPT ![m[1]] = m[2]]
    /\ Goto(m, "subject")
    /\ UNCHANGED <<boot, channel, job, transport, sent, announced, faults, excused>>

\* await setSubjectFn.
Subject(m) ==
    /\ details[m].step = "subject"
    /\ Goto(m, "vars")
    /\ UNCHANGED <<boot, channel, data, job, transport, sent, announced, faults, excused>>

\* setRecipientFn and setTemplateVarsFn read the event, then setAttachmentsFn
\* and setOptionalAddressFieldsFn do.
ReadEvent(m) ==
    /\ details[m].step \in {"vars", "attachments"}
    /\ details' = [details EXCEPT ![m].used = @ \cup {data[m[1]]},
                                  ![m].step = IF @ = "vars" THEN "attachments" ELSE "queue"]
    /\ UNCHANGED <<boot, channel, data, job, transport, sent, announced, faults, excused>>

\* jobQueue.add, or nothing while the queue has not been created.
Queue(m) ==
    /\ details[m].step = "queue"
    /\ Goto(m, "done")
    /\ IF boot = "ready"
       THEN job' = [job EXCEPT ![m].step = "pending"] /\ UNCHANGED excused
       ELSE Lost({m}) /\ UNCHANGED job
    /\ UNCHANGED <<boot, channel, data, transport, sent, announced, faults>>

\* loadData or another function of the handler throws, or the queue does: it
\* is logged, and there is no mail.
HandleFails(m) ==
    /\ details[m].step \notin {"none", "done"}
    /\ Fault
    /\ Goto(m, "done")
    /\ Lost({m})
    /\ UNCHANGED <<boot, channel, data, job, transport, sent, announced>>

-----------------------------------------------------------------------------
(* EmailProcessor.process, in the worker.                                   *)

At(m, step) == job' = [job EXCEPT ![m].step = step]

\* loadTemplate and generate.
Generate(m) ==
    /\ job[m].step = "pending"
    /\ job' = [job EXCEPT ![m].step = "send", ![m].attempts = @ + 1]
    /\ UNCHANGED <<boot, channel, data, details, transport, sent, announced, faults, excused>>

\* getSmtpTransport, getSesTransport, getSendMailTransport: created from the
\* options of the first mail and kept.
TransportFor(c) == IF transport = None THEN c ELSE transport

Deliver(m) ==
    LET through == TransportFor(channel[m[1]]) IN
    /\ transport' = through
    /\ sent' = [sent EXCEPT ![m].times = @ + 1, ![m].through = @ \cup {through}]

Send(m) ==
    /\ job[m].step = "send"
    /\ Deliver(m)
    /\ At(m, "announce")
    /\ UNCHANGED <<boot, channel, data, details, announced, faults, excused>>

\* A slip of AfterAnnounce: the queue takes the job for one that has to be run.
RunAgain(m) == "pending"

AfterAnnounce(m) == "completed"

\* eventBus.publish(new EmailSendEvent(..., true)).
Announce(m) ==
    /\ job[m].step = "announce"
    /\ announced' = [announced EXCEPT ![m].success = @ + 1]
    /\ At(m, AfterAnnounce(m))
    /\ UNCHANGED <<boot, channel, data, details, transport, sent, faults, excused>>

\* A template, the generator, or the mail server fails; a mail that is
\* reported as failed may have left.
SendFails(m, left) ==
    /\ job[m].step = "send"
    /\ Fault
    /\ IF left THEN Deliver(m) /\ Repeated(m)
       ELSE UNCHANGED <<transport, sent, excused>>
    /\ At(m, "announceFailure")
    /\ UNCHANGED <<boot, channel, data, details, announced>>

\* A blocking subscriber of the EmailSendEvent throws, inside the same try as
\* the sending.
AnnounceFails(m) ==
    /\ job[m].step = "announce"
    /\ Fault
    /\ announced' = [announced EXCEPT ![m].success = @ + 1]
    /\ Repeated(m)
    /\ At(m, "announceFailure")
    /\ UNCHANGED <<boot, channel, data, details, transport, sent>>

\* A slip of AfterThrow: the queue was created without retries.
GiveUp(m) == "failed"

\* What the queue makes of a job that rejects.
AfterThrow(m) == IF job[m].attempts > Retries THEN "failed" ELSE "pending"

\* A slip of FailureOf: the error is thrown on, and nobody is told.
Unannounced(a) == a

FailureOf(a) == [a EXCEPT !.failure = @ + 1]

\* The failure is published and the error thrown again: the job rejects.
AnnounceFailure(m) ==
    /\ job[m].step = "announceFailure"
    /\ announced' = [announced EXCEPT ![m] = FailureOf(@)]
    /\ At(m, AfterThrow(m))
    /\ UNCHANGED <<boot, channel, data, details, transport, sent, faults, excused>>

-----------------------------------------------------------------------------
CutOff(m) == [job[m] EXCEPT !.step = AfterThrow(m), !.cut = @ + 1]

\* The worker stops: the queue gives its jobs to the next one.
StopWorker ==
    LET running == {m \in Mails : job[m].step \in {"send", "announce", "announceFailure"}} IN
    /\ Fault
    /\ transport' = None
    /\ job' = [m \in Mails |-> IF m \in running THEN CutOff(m) ELSE job[m]]
    /\ excused' = [excused EXCEPT !.repeated = @ \cup {m \in running : sent[m].times > 0}]
    /\ UNCHANGED <<boot, channel, data, details, sent, announced>>

\* The server stops: what its handlers were working on is gone.
StopServer ==
    LET handling == {m \in Mails : details[m].step \notin {"none", "done"}} IN
    /\ Fault
    /\ boot' = "starting"
    /\ details' = [m \in Mails |-> IF m \in handling THEN [details[m] EXCEPT !.step = "done"]
                                   ELSE details[m]]
    /\ Lost(handling)
    /\ UNCHANGED <<channel, data, job, transport, sent, announced>>

HandlerStep(m) == LoadData(m) \/ Subject(m) \/ ReadEvent(m) \/ Queue(m)

ProcessStep(m) == Generate(m) \/ Send(m) \/ Announce(m) \/ AnnounceFailure(m)

Next ==
    \/ Subscribe \/ CreateQueue \/ StopWorker \/ StopServer
    \/ \E e \in Events, c \in Channels, accepting \in SUBSET EmailHandlers : Occur(e, c, accepting)
    \/ \E m \in Mails : \/ HandlerStep(m) \/ HandleFails(m)
                        \/ ProcessStep(m) \/ AnnounceFails(m)
                        \/ \E left \in BOOLEAN : SendFails(m, left)

Spec == Init /\ [][Next]_vars

\* Handlers that have not failed go on, and the queue runs its jobs.
Fairness == \A m \in Mails : WF_vars(HandlerStep(m) \/ ProcessStep(m))

-----------------------------------------------------------------------------
(* Properties.                                                              *)

\* Events, handlers and jobs keep their types: a mail that is worked on
\* belongs to an event that has occurred, and a job is run 1 + Retries times
\* at most.
TypeOK ==
    /\ boot \in {"starting", "subscribed", "ready"}
    /\ channel \in [Events -> Channels \cup {None}]
    /\ data \in [Events -> EmailHandlers \cup {None}]
    /\ details \in [Mails -> [step : DetailSteps, used : SUBSET (EmailHandlers \cup {None})]]
    /\ job \in [Mails -> [step : JobSteps, attempts : 0 .. Retries + 1, cut : Nat]]
    /\ transport \in Channels \cup {None}
    /\ sent \in [Mails -> [times : 0 .. Retries + 1, through : SUBSET Channels]]
    /\ announced \in [Mails -> [success : Nat, failure : Nat]]
    /\ faults \in Nat
    /\ excused \in [lost : SUBSET Mails, repeated : SUBSET Mails]
    /\ \A m \in Mails : details[m].step # "none" => channel[m[1]] # None

\* A mail goes out twice only when its job failed after it had left: the
\* server reported a failure, a subscriber threw, or the worker stopped.
MailLeavesOnce ==
    \A m \in Mails : sent[m].times > 1 => m \in excused.repeated

\* Every attempt to send a mail tells the subscribers what became of it: when
\* no attempt is under way, a failure was announced for each attempt but the
\* one that completed the job and those that a stopping worker cut off; a job
\* completes with a success announced, and there are no more successes
\* announced than mails that left.
OutcomeIsAnnounced ==
    \A m \in Mails :
        /\ job[m].step \in {"pending", "failed"} => announced[m].failure + job[m].cut = job[m].attempts
        /\ job[m].step = "completed" =>
              /\ announced[m].failure + job[m].cut + 1 = job[m].attempts
              /\ announced[m].success > 0
        /\ announced[m].success <= sent[m].times

\* An event that a handler accepts is mailed in the end: unless handling it
\* failed, the queue did not exist yet, or each attempt the job has failed.
Unmailed ==
    {m \in Mails : /\ details[m].step # "none" /\ sent[m].times = 0
                   /\ m \notin excused.lost
                   /\ ~(job[m].step = "failed" /\ job[m].attempts = Retries + 1)}

AcceptedEventIsMailed == []<>(Unmailed = {})

\* The mail of a channel leaves through the mail server of that channel.
MailLeavesThroughItsTransport ==
    \A m \in Mails : sent[m].through \subseteq {channel[m[1]]}

\* What a handler makes a mail of is what its own loadData returned.
MailHasItsOwnData ==
    \A m \in Mails : details[m].used \subseteq {m[2]}
=============================================================================
