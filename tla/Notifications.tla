--------------------------- MODULE Notifications ---------------------------
(***************************************************************************)
(* One notification by mail (apps/notifications): the row, the task that   *)
(* writes it and publishes a message, the task that sends the mail, and    *)
(* the user who marks it read.                                             *)
(*                                                                         *)
(* Tasks are acknowledged late (CELERY_TASK_ACKS_LATE,                     *)
(* CELERY_TASK_REJECT_ON_WORKER_LOST): the broker keeps a message until    *)
(* the task has ended, and hands it out again when its worker dies.  The   *)
(* steps of a task are apart where a worker can die or the row can change  *)
(* in between.  Celery, the broker and the mail server are external.       *)
(***************************************************************************)
EXTENDS Naturals, FiniteSets

CONSTANTS
  Workers,     \* Celery workers
  MaxRetries,  \* max_retries of the task
  MaxMails,    \* bound on the mails sent
  MaxMessages  \* bound on the messages of the queue

ASSUME NotificationsAssumption ==
  /\ MaxRetries \in Nat /\ MaxMails \in Nat /\ MaxMessages \in Nat \ {0}

VARIABLES
  notifier,   \* send_order_paid_email: "idle", the row is "created", or "done"
  row,        \* Notification.status, "none" before the row exists
  addressed,  \* whether the payload or the user has an address
  broker,     \* messages waiting, by their number of retries
  task,       \* what each worker does, with the retries of its message
  mails,      \* mails the server took
  mishap,     \* whether something happened that may send a mail again
  given       \* whether nobody is left to try: the retries were used up, the database
              \* failed on top, or a message was not published

mailVars == <<notifier, row, addressed, broker, task, mails, mishap, given>>

Free == [stage |-> "free", retries |-> 0]
Waiting == {r \in DOMAIN broker : broker[r] > 0}
Busy(w) == task[w].stage # "free"

Goto(w, stage) == task' = [task EXCEPT ![w].stage = stage]

MailInit ==
  /\ notifier = "idle"
  /\ row = "none"
  /\ addressed \in BOOLEAN
  /\ broker = [r \in 0..MaxRetries |-> 0]
  /\ task = [w \in Workers |-> Free]
  /\ mails = 0
  /\ mishap = FALSE /\ given = FALSE

---------------------------------------------------------------------------
(* Operations                                                              *)

\* send_order_paid_email, for an order that exists: the row is committed ...
Notify ==
  /\ notifier = "idle"
  /\ notifier' = "created"
  /\ row' = "pending"
  /\ UNCHANGED <<addressed, broker, task, mails, mishap, given>>

\* ... before the message is published.  The broker may refuse it, and the
\* worker may die first: the row then has no message, and no task looks for it.
Publish ==
  /\ notifier = "created"
  /\ notifier' = "done"
  /\ \/ broker[0] < MaxMessages /\ broker' = [broker EXCEPT ![0] = @ + 1] /\ UNCHANGED given
     \/ UNCHANGED broker /\ given' = TRUE
  /\ UNCHANGED <<row, addressed, task, mails, mishap>>

StartUnlessGone(w, r) ==
  /\ ~Busy(w) /\ r \in Waiting
  /\ broker' = [broker EXCEPT ![r] = @ - 1]
  /\ task' = [task EXCEPT ![w] =
       [stage |-> IF addressed THEN "send" ELSE "fail", retries |-> r]]
  /\ UNCHANGED <<notifier, row, addressed, mails, mishap, given>>

\* send_email_notification, up to send_mail.
Start(w, r) ==
  /\ ~Busy(w) /\ r \in Waiting
  /\ broker' = [broker EXCEPT ![r] = @ - 1]
  /\ task' = [task EXCEPT ![w] =
       [stage |-> CASE row = "sent" -> "end"
                    [] row # "sent" /\ addressed -> "send"
                    [] OTHER -> "fail",
        retries |-> r]]
  /\ UNCHANGED <<notifier, row, addressed, mails, mishap, given>>

\* There is no address: FAILED, and no retry.
Fail(w) ==
  /\ task[w].stage = "fail"
  /\ row' = "failed"
  /\ Goto(w, "end")
  /\ UNCHANGED <<notifier, addressed, broker, mails, mishap, given>>

\* send_mail: taken by the server, refused, or taken without the worker
\* learning of it.
SendMail(w) ==
  /\ task[w].stage = "send" /\ mails < MaxMails
  /\ \/ mails' = mails + 1 /\ Goto(w, "sent") /\ UNCHANGED mishap
     \/ mails' = mails /\ Goto(w, "error") /\ UNCHANGED mishap
     \/ mails' = mails + 1 /\ Goto(w, "error") /\ mishap' = TRUE
  /\ UNCHANGED <<notifier, row, addressed, broker, given>>

\* The save of SENT; when it raises, the except branch takes over.
SaveSent(w) ==
  /\ task[w].stage = "sent"
  /\ \/ row' = "sent" /\ Goto(w, "end") /\ UNCHANGED mishap
     \/ UNCHANGED row /\ Goto(w, "error") /\ mishap' = TRUE
  /\ UNCHANGED <<notifier, addressed, broker, mails, given>>

\* The save of FAILED; when that raises too the task fails without a retry.
SaveFailed(w) ==
  /\ task[w].stage = "error"
  /\ \/ row' = "failed" /\ Goto(w, "retry") /\ UNCHANGED given
     \/ UNCHANGED row /\ Goto(w, "end") /\ given' = TRUE
  /\ UNCHANGED <<notifier, addressed, broker, mails, mishap>>

\* self.retry: a new message, unless max_retries is reached.  When it cannot be
\* published the old one is rejected, and not put back.
Retry(w) ==
  /\ task[w].stage = "retry"
  /\ \/ /\ task[w].retries < MaxRetries
        /\ broker[task[w].retries + 1] < MaxMessages
        /\ broker' = [broker EXCEPT ![task[w].retries + 1] = @ + 1]
        /\ UNCHANGED given
     \/ UNCHANGED broker /\ given' = TRUE
  /\ Goto(w, "end")
  /\ UNCHANGED <<notifier, row, addressed, mails, mishap>>

Acknowledge(w) ==
  /\ task[w].stage = "end"
  /\ task' = [task EXCEPT ![w] = Free]
  /\ UNCHANGED <<notifier, row, addressed, broker, mails, mishap, given>>

CrashAcknowledged(w) ==
  /\ Busy(w)
  /\ task' = [task EXCEPT ![w] = Free]
  /\ mishap' = TRUE
  /\ UNCHANGED <<notifier, row, addressed, broker, mails, given>>

\* The worker dies, and the broker hands the message out again.  A mail may
\* be repeated when it was sent and the row does not say so.
Crash(w) ==
  /\ Busy(w)
  /\ broker[task[w].retries] < MaxMessages
  /\ broker' = [broker EXCEPT ![task[w].retries] = @ + 1]
  /\ task' = [task EXCEPT ![w] = Free]
  /\ mishap' = (mishap \/ task[w].stage = "sent" \/ (task[w].stage = "end" /\ row # "sent"))
  /\ UNCHANGED <<notifier, row, addressed, mails, given>>

\* mark_read, on a row the user can list; it takes the place of SENT.
MarkRead ==
  /\ row # "none"
  /\ row' = "read"
  /\ mishap' = (mishap \/ row = "sent")
  /\ UNCHANGED <<notifier, addressed, broker, task, mails, given>>

MailNext ==
  \/ Notify \/ Publish
  \/ \E w \in Workers, r \in 0..MaxRetries : Start(w, r)
  \/ \E w \in Workers :
       \/ Fail(w) \/ SendMail(w) \/ SaveSent(w) \/ SaveFailed(w) \/ Retry(w)
       \/ Acknowledge(w) \/ Crash(w)
  \/ MarkRead

MailSpec == MailInit /\ [][MailNext]_mailVars

---------------------------------------------------------------------------
(* Properties                                                              *)

MailTypeOK ==
  /\ notifier \in {"idle", "created", "done"}
  /\ row \in {"none", "pending", "sent", "failed", "read"}
  /\ addressed \in BOOLEAN /\ mishap \in BOOLEAN /\ given \in BOOLEAN
  /\ broker \in [0..MaxRetries -> 0..MaxMessages]
  /\ task \in [Workers ->
       [stage : {"free", "send", "fail", "sent", "error", "retry", "end"},
        retries : 0..MaxRetries]]
  /\ mails \in 0..MaxMails

\* Retries, workers that die and messages handed out again do not repeat a
\* mail: it goes out twice only if the row could not be told of the first, or
\* lost what it was told (the SENT test of send_email_notification).
TwiceOnlyAfterMishap == mails > 1 => mishap

\* A mail that never went out is still to be tried, by the task that wrote the
\* row, by a worker or from the queue, whatever workers die and messages come
\* back (late acknowledgement, self.retry): until the retries are used up, there
\* is no address, the database fails on top, or a message was not published.
MailIsNotForgotten ==
  (row # "none" /\ addressed /\ mails = 0 /\ ~given) =>
    notifier = "created" \/ Waiting # {} \/ \E w \in Workers : Busy(w)
=============================================================================
