---------------------------- MODULE Notification ----------------------------
(* One replica of the notification worker: a pub/sub listener whose handler
   turns an event into e-mails, the cache of the notification configs with its
   two loaders, and the supervisor that restarts what fails.  Pub/sub keeps
   nothing: what is published while the listener is away is gone. *)
EXTENDS Naturals, Sequences, SequencesExt, FiniteSets

CONSTANTS
  Events, People,
  Malformed,     \* events NotificationEvent does not accept
  Roles,
  Holders,       \* per event and role, who holds it
  Configs,       \* the rows an admin may store: [enabled, roles]
  FirstConfig,
  MaxAttempts,
  MaxEdits, MaxTrouble   \* bounds: admin's changes, mishaps

Loaders == {"poll", "reload"}
NoEvent == "none"
NoConfig == [enabled |-> FALSE, roles |-> <<>>]

ASSUME NotificationAssumption ==
  /\ Malformed \subseteq Events /\ NoEvent \notin Events /\ IsFiniteSet(People)
  /\ FirstConfig \in Configs /\ NoConfig \notin Configs
  /\ \A c \in Configs : c.enabled \in BOOLEAN /\ c.roles \in Seq(Roles)
  /\ Holders \in [Events -> [Roles -> SUBSET People]]
  /\ MaxAttempts \in Nat \ {0} /\ MaxEdits \in Nat /\ MaxTrouble \in Nat

VARIABLES
  listening,     \* whether the listener is subscribed
  inbox,         \* events its connection has received
  job,           \* the event in hand: [event, at, left, tries, row]
  stored, cached,\* the config in the database and in memory
  loading,       \* per loader, the config it has read, or NoConfig
  rowFor,        \* notification_logs, per event and person
  published,
  mails,         \* history, per event and person: mails that went out
  doubts,        \* history: attempts whose answer was lost, if it went out
  tried,         \* history: whom the handler has tried to reach
  wanted,        \* history: per handled event, whom its config names
  excused,       \* history: events a mishap has touched
  unlogged,      \* history: whose row a database failure has touched
  edits, trouble

inbound == <<listening, inbox, published>>
configs == <<stored, cached, loading, edits>>
history == <<mails, doubts, tried, wanted, excused, unlogged>>
notifyVars == <<inbound, job, configs, rowFor, history, trouble>>

Idle == [event |-> NoEvent, at |-> "idle", left |-> <<>>, tries |-> 0, row |-> FALSE]
Zero == [e \in Events |-> [p \in People |-> 0]]

NotifyInit ==
  /\ listening = FALSE /\ inbox = <<>> /\ published = {}
  /\ job = Idle
  /\ stored = FirstConfig /\ cached = FirstConfig
  /\ loading = [l \in Loaders |-> NoConfig]
  /\ rowFor = [e \in Events |-> [p \in People |-> "none"]]
  /\ mails = Zero /\ doubts = Zero
  /\ tried = {} /\ unlogged = {}
  /\ wanted = [e \in Events |-> {}] /\ excused = {}
  /\ edits = 0 /\ trouble = 0

Trouble == trouble < MaxTrouble /\ trouble' = trouble + 1
Excuse(E) == excused' = excused \cup E

----------------------------------------------------------------------------
(* Publishers and the listener. *)
PublishEvent(e) ==
  /\ e \notin published
  /\ published' = published \cup {e}
  /\ IF listening THEN inbox' = Append(inbox, e) /\ UNCHANGED excused
     ELSE Excuse({e}) /\ UNCHANGED inbox
  /\ UNCHANGED <<listening, job, configs, rowFor, mails, doubts, tried, wanted,
                 unlogged, trouble>>

(* run() subscribes: at first, and when its supervisor starts it again, once
   the handler that raised is through. *)
Ended == ~listening /\ job = Idle

Subscribe ==
  /\ Ended
  /\ listening' = TRUE
  /\ UNCHANGED <<inbox, published, job, configs, rowFor, history, trouble>>

(* The connection drops: what it has received is lost, and listen() raises
   once the handler is through. *)
LoseConnection ==
  /\ listening /\ Trouble
  /\ listening' = FALSE /\ inbox' = <<>>
  /\ Excuse(ToSet(inbox))
  /\ UNCHANGED <<published, job, configs, rowFor, mails, doubts, tried, wanted, unlogged>>

(* The process stops and is started again, with a fresh config; the row of
   the mail in hand stays as it is. *)
StopWorker ==
  /\ Trouble
  /\ listening' = FALSE /\ inbox' = <<>> /\ job' = Idle
  /\ Excuse(ToSet(inbox) \cup ({job.event} \ {NoEvent}))
  /\ unlogged' = IF job.at \in {"send", "final"}
                 THEN unlogged \cup {<<job.event, Head(job.left)>>} ELSE unlogged
  /\ cached' = stored /\ loading' = [l \in Loaders |-> NoConfig]
  /\ UNCHANGED <<published, stored, edits, rowFor, mails, doubts, tried, wanted>>

HoldersOf(e, role) == Holders[e][role]

(* Whom the first k roles reach, and the first role that names a person. *)
Recipients(e, roles, k) == UNION {HoldersOf(e, roles[i]) : i \in 1..k}
RoleOf(e, roles, p) ==
  CHOOSE i \in DOMAIN roles : /\ p \in HoldersOf(e, roles[i])
                             /\ \A j \in 1..(i - 1) : p \notin HoldersOf(e, roles[j])

(* No address twice, whatever roles it is in: role by role, and within a role
   as the database lists them. *)
Resolved(e, roles, k) ==
  {found \in SetToSeqs(Recipients(e, roles, k)) :
     \A i, j \in DOMAIN found :
       i < j => RoleOf(e, roles, found[i]) <= RoleOf(e, roles, found[j])}

Parsed(e) == e \notin Malformed

(* The handler skips an event whose config is disabled.  A role that fails to
   resolve aborts the transaction of the session, so that those after it fail
   as well. *)
Handle(e, roles) ==
  \E k \in 0..Len(roles) :
    /\ IF k = Len(roles) THEN UNCHANGED trouble ELSE Trouble
    /\ Excuse(IF k < Len(roles) \/ cached # stored THEN {e} ELSE {})
    /\ \E found \in Resolved(e, roles, k) :
         job' = IF found = <<>> THEN Idle
                ELSE [Idle EXCEPT !.event = e, !.left = found, !.at = "row"]
    /\ wanted' = [wanted EXCEPT ![e] = Recipients(e, roles, Len(roles))]

(* The next message; a malformed one is for nobody. *)
TakeEvent ==
  /\ listening /\ job = Idle /\ inbox # <<>>
  /\ inbox' = Tail(inbox)
  /\ LET e == Head(inbox)
     IN Handle(e, IF Parsed(e) /\ cached.enabled THEN cached.roles ELSE <<>>)
  /\ UNCHANGED <<listening, published, configs, rowFor, mails, doubts, tried, unlogged>>

Person == Head(job.left)
SetRow(status) == rowFor' = [rowFor EXCEPT ![job.event][Person] = status]
DbFails == Trouble /\ unlogged' = unlogged \cup {<<job.event, Person>>}

(* Rendering raises: handle() ends, the listener with it, and what its
   connection still held is lost. *)
EndsListener ==
  /\ listening' = FALSE /\ inbox' = <<>> /\ job' = Idle
  /\ UNCHANGED published

RenderFails ==
  /\ job.at = "row" /\ Trouble
  /\ EndsListener /\ Excuse(ToSet(inbox) \cup {job.event})
  /\ UNCHANGED <<configs, rowFor, mails, doubts, tried, wanted, unlogged>>

(* The row is committed as pending; if that fails there is no row any more,
   and the mail goes out all the same. *)
LogPending ==
  /\ job.at = "row"
  /\ \E ok \in BOOLEAN :
       /\ job' = [job EXCEPT !.at = "send", !.tries = 0, !.row = ok]
       /\ IF ok THEN SetRow("pending") /\ UNCHANGED <<unlogged, trouble>>
          ELSE DbFails /\ UNCHANGED rowFor
  /\ UNCHANGED <<inbound, configs, mails, doubts, tried, wanted, excused>>

Delivered(more) == mails' = [mails EXCEPT ![job.event][Person] = @ + more]
Outcome(status) ==
  /\ job' = [job EXCEPT !.at = "final", !.tries = 0]
  /\ IF job.row THEN SetRow(status) ELSE UNCHANGED rowFor
  /\ tried' = tried \cup {<<job.event, Person>>}

(* The last attempt has failed, or one that it makes no sense to repeat. *)
RaiseOut ==
  /\ EndsListener
  /\ IF job.row THEN SetRow("failed") ELSE UNCHANGED rowFor
  /\ tried' = tried \cup {<<job.event, Person>>}

GiveUp == Outcome("failed") /\ UNCHANGED inbound

(* One attempt: delivered, refused for good, or failed in a way worth another
   try, in which case it may have been delivered nevertheless. *)
Attempt ==
  /\ job.at = "send"
  /\ \/ Delivered(1) /\ Outcome("sent") /\ UNCHANGED <<inbound, doubts>>
     \/ GiveUp /\ UNCHANGED <<mails, doubts>>
     \/ \E lost \in {0, 1} :
          /\ Delivered(lost)
          /\ doubts' = [doubts EXCEPT ![job.event][Person] = @ + lost]
          /\ IF job.tries + 1 = MaxAttempts THEN GiveUp
             ELSE /\ job' = [job EXCEPT !.tries = @ + 1]
                  /\ UNCHANGED <<inbound, rowFor, tried>>
  /\ UNCHANGED <<configs, wanted, excused, unlogged, trouble>>

(* The second commit writes what became of it; if it fails the row stays
   pending. *)
Finalize ==
  /\ job.at = "final"
  /\ job' = IF Tail(job.left) = <<>> THEN Idle
            ELSE [job EXCEPT !.left = Tail(@), !.at = "row"]
  /\ \/ UNCHANGED <<rowFor, unlogged, trouble>>
     \/ /\ DbFails
        /\ IF job.row THEN SetRow("pending") ELSE UNCHANGED rowFor
  /\ UNCHANGED <<inbound, configs, mails, doubts, tried, wanted, excused>>

----------------------------------------------------------------------------
(* The config: an admin stores one; the poll of the health check and the
   reload listener read and assign, each for itself. *)
EditConfig(c) ==
  /\ edits < MaxEdits /\ c # stored
  /\ edits' = edits + 1
  /\ stored' = c
  /\ UNCHANGED <<inbound, job, cached, loading, rowFor, history, trouble>>

ReadConfig(l) ==
  /\ loading[l] = NoConfig
  /\ loading' = [loading EXCEPT ![l] = stored]
  /\ UNCHANGED <<inbound, job, stored, cached, edits, rowFor, history, trouble>>

AssignConfig(l) ==
  /\ loading[l] # NoConfig
  /\ cached' = loading[l]
  /\ loading' = [loading EXCEPT ![l] = NoConfig]
  /\ UNCHANGED <<inbound, job, stored, edits, rowFor, history, trouble>>

PollConfig == ReadConfig("poll") \/ AssignConfig("poll")
ReloadConfig == ReadConfig("reload") \/ AssignConfig("reload")

NotifyNext ==
  \/ \E e \in Events : PublishEvent(e)
  \/ Subscribe \/ LoseConnection \/ StopWorker
  \/ TakeEvent \/ RenderFails \/ LogPending \/ Attempt \/ Finalize
  \/ \E c \in Configs : EditConfig(c)
  \/ PollConfig \/ ReloadConfig

NotifySpec == NotifyInit /\ [][NotifyNext]_notifyVars

----------------------------------------------------------------------------
NotifyTypeOK ==
  /\ listening \in BOOLEAN /\ inbox \in Seq(Events) /\ published \subseteq Events
  /\ job.event \in Events \cup {NoEvent} /\ job.left \in Seq(People)
  /\ stored \in Configs /\ cached \in Configs
  /\ rowFor \in [Events -> [People -> {"none", "pending", "sent", "failed"}]]
  /\ mails \in [Events -> [People -> Nat]] /\ excused \subseteq Events

Done(e) == e \in published /\ e \notin ToSet(inbox) /\ job.event # e

(* A well-formed event that was published is spent on everyone its config
   names, unless the listener was away, its connection dropped, the process
   stopped, a role or the template failed, or the cached config was old.
   One recipient's refused mail costs no other recipient and no other event. *)
MissedHasCause ==
  \A e \in Events : (Done(e) /\ e \notin excused) =>
    \A p \in wanted[e] : <<e, p>> \in tried

(* What notification_logs says is what happened: a mail that was sent once and
   no failed one without a cause, nobody gets two unless the answer to one was
   lost, and only a database failure or a stop leaves a row out or pending. *)
RowsAreAccounted ==
  \A e \in Events : \A p \in People :
    /\ mails[e][p] <= 1 + doubts[e][p]
    /\ rowFor[e][p] = "sent" => mails[e][p] = 1 + doubts[e][p]
    /\ rowFor[e][p] = "failed" => mails[e][p] = doubts[e][p]
    /\ (<<e, p>> \in tried /\ <<e, p>> \notin unlogged) =>
         rowFor[e][p] \in {"sent", "failed"}

(* Both: who was to hear of an event heard of it, and the log knows. *)
EventsAreAccounted == MissedHasCause /\ RowsAreAccounted
=============================================================================
