----------------------------- MODULE Ingestion -----------------------------
(***************************************************************************)
(* The ingestion service (ingestion.service.ts) and its in-memory queue    *)
(* (ingestion.queue.ts): HTTP calls that register a file, receive its      *)
(* content and hand it to the queue, and the one loop per server instance  *)
(* that writes the variants.                                               *)
(*                                                                         *)
(* Every statement the code awaits is a step of its own; what runs between *)
(* two awaits is one step.  Database rows and storage objects outlive a    *)
(* restart, calls, queues and loops do not.  A file's content stands for   *)
(* its own SHA-256 checksum, and a file for its one storage key, which     *)
(* createPendingFile makes unique with randomUUID and no upload changes.   *)
(* An object is written as the configured driver of storage.service.ts     *)
(* does it: on disk it is truncated and filled in place, at Supabase it is *)
(* replaced at once.                                                       *)
(***************************************************************************)
EXTENDS Naturals, Sequences

CONSTANTS
    Files,          \* file ids
    Calls,          \* the HTTP calls that ever arrive
    Contents,       \* file contents, each its own checksum
    Instances,      \* server processes, each with a queue of its own
    NoFile, NoContent, NoCall,
    StorageDriver,  \* "local" or "supabase"
    Faults,         \* which statements may throw: a subset of FaultKinds
    SerialClients,  \* TRUE: nobody sends the content of a file that was registered without
                    \* a checksum while a call on it is open
    MaxCrashes      \* how often instances are killed, at most

\* "request": a statement of a call, storage included; "stub": the variants'
\* transaction; "read", "mark": the two statements of handleJob outside its try.
FaultKinds == {"request", "stub", "read", "mark"}

ASSUME IngestionAssumption ==
    /\ Instances # {}
    /\ NoFile \notin Files
    /\ NoContent \notin Contents
    /\ NoCall \notin Calls
    /\ StorageDriver \in {"local", "supabase"}
    /\ Faults \subseteq FaultKinds
    /\ SerialClients \in BOOLEAN
    /\ MaxCrashes \in Nat

VARIABLES
    file,        \* rows of files: status and checksum
    job,         \* rows of ingestion_jobs: the NORMALIZE_FILE job of each file
    variant,     \* checksum in the ORIGINAL row of file_variants, NoContent: no row
    object,      \* the stored object of each file: the contents its bytes may come from (none:
                 \* there is no object), whether every byte is there, and who opened it last
    declared,    \* history: the checksum the client registered the file with
    call,        \* the HTTP calls: where they are and what they hold
    queue,       \* per instance, IngestionQueueService.queue
    processing,  \* per instance, IngestionQueueService.processing
    worker,      \* per instance, the processQueue loop that some call is running
    crashes

rows  == <<file, job, variant, object, declared>>
loops == <<queue, processing, worker>>
vars  == <<rows, call, loops, crashes>>

FileStatus == {"ABSENT", "PENDING_UPLOAD", "STORED", "CHECKSUM_FAILED"}
JobStatus  == {"ABSENT", "PENDING", "RUNNING", "COMPLETED", "FAILED"}
LastError  == {"none", "CHECKSUM_MISMATCH", "STUB_ERROR"}
Answer     == {"none", "PENDING", "RUNNING", "COMPLETED", "FAILED"}
Checksum   == Contents \cup {NoContent}

\* The steps of a call, in order, and how it ends.
OpenPc   == {"createJob", "flagFile", "flagJob", "put", "fill", "row", "run", "enqueue",
             "draining", "finish", "reply"}
CallPc   == OpenPc \cup {"unused", "done", "failed", "lost"}
CallKind == {"REQUEST", "INGEST", "PUT"}
WorkerPc == {"idle", "read", "stub", "mark", "next", "dead"}

\* Calls that passed the checksum test and will write or have written the content.
Transfer == {"put", "fill", "row", "run", "enqueue", "draining", "finish", "reply"}

CallRecord   == [pc : CallPc, kind : CallKind, at : Instances, file : Files \cup {NoFile},
                 body : Checksum, seen : Checksum, answer : Answer]
ObjectRecord == [of : SUBSET Checksum, whole : BOOLEAN, by : Calls \cup {NoCall}]
WorkerRecord == [pc : WorkerPc, file : Files \cup {NoFile}, seen : Checksum,
                 owner : Calls \cup {NoCall}]

Unused == [pc |-> "unused", kind |-> "PUT", at |-> CHOOSE i \in Instances : TRUE,
           file |-> NoFile, body |-> NoContent, seen |-> NoContent, answer |-> "none"]
Idle   == [pc |-> "idle", file |-> NoFile, seen |-> NoContent, owner |-> NoCall]

NoObject == [of |-> {}, whole |-> FALSE, by |-> NoCall]

Open(u) == call[u].pc \in OpenPc
Goto(u, pc) == call' = [call EXCEPT ![u].pc = pc]

\* updateMany on the file's NORMALIZE_FILE job: no row, no effect.
JobUpdate(f, status, error, attempts) ==
    job' = [job EXCEPT ![f] = IF @.status = "ABSENT" THEN @
                              ELSE [status |-> status, lastError |-> error,
                                    attempts |-> @.attempts + attempts]]

Init ==
    /\ file = [f \in Files |-> [status |-> "ABSENT", checksum |-> NoContent]]
    /\ job = [f \in Files |-> [status |-> "ABSENT", lastError |-> "none", attempts |-> 0]]
    /\ variant = [f \in Files |-> NoContent]
    /\ object = [f \in Files |-> NoObject]
    /\ declared = [f \in Files |-> NoContent]
    /\ call = [u \in Calls |-> Unused]
    /\ queue = [i \in Instances |-> <<>>]
    /\ processing = [i \in Instances |-> FALSE]
    /\ worker = [i \in Instances |-> Idle]
    /\ crashes = 0

----------------------------------------------------------------------------
(* Broken variants of actions below, each the slip a change to the code could make;  *)
(* none is part of the specification.  The properties at the end tell them apart.    *)

\* The upload is accepted whatever the row's checksum says.
ReceiveUntested(u, i, f, body) ==
    /\ call[u].pc = "unused"
    /\ file[f].status # "ABSENT"
    /\ SerialClients /\ declared[f] = NoContent => \A v \in Calls : call[v].file = f => ~Open(v)
    /\ call' = [call EXCEPT ![u] = [Unused EXCEPT !.pc = "put", !.at = i, !.file = f,
                                                  !.body = body, !.seen = file[f].checksum]]
    /\ UNCHANGED <<rows, loops, crashes>>

\* An upload that breaks off is not noticed: writeFile is not awaited.
WriteUnnoticed(u) ==
    /\ "request" \in Faults
    /\ call[u].pc \in OpenPc \ {"enqueue", "draining"}
    /\ Goto(u, IF call[u].pc = "fill" THEN "row" ELSE "failed")
    /\ UNCHANGED <<rows, loops, crashes>>

\* enqueueNormalizeJob with the pieces the code puts together right: what is
\* pushed where, and what a call does that finds the flag up.
EnqueueAs(u, front, keep, busyPc) ==
    LET i == call[u].at
        f == call[u].file
        q == IF front THEN <<f>> \o queue[i] ELSE Append(queue[i], f)
    IN
    /\ call[u].pc = "enqueue"
    /\ IF processing[i]
         THEN /\ queue' = [queue EXCEPT ![i] = IF keep THEN q ELSE @]
              /\ Goto(u, busyPc)
              /\ UNCHANGED <<processing, worker>>
         ELSE /\ queue' = [queue EXCEPT ![i] = Tail(q)]
              /\ processing' = [processing EXCEPT ![i] = TRUE]
              /\ worker' = [worker EXCEPT ![i] = [Idle EXCEPT !.pc = "read", !.file = Head(q),
                                                             !.owner = u]]
              /\ Goto(u, "draining")
    /\ UNCHANGED <<rows, crashes>>

EnqueueInFront(u)   == EnqueueAs(u, TRUE, TRUE, "finish")     \* unshift for push
EnqueueTestFirst(u) == EnqueueAs(u, FALSE, FALSE, "finish")   \* test before push
EnqueueAwaits(u)    == EnqueueAs(u, FALSE, TRUE, "draining")  \* waits for the other loop

\* The job is completed ahead of the variants instead of with them.
CompleteEarly(i) ==
    LET f == worker[i].file IN
    /\ worker[i].pc = "stub"
    /\ JobUpdate(f, "COMPLETED", "none", 1)
    /\ worker' = [worker EXCEPT ![i].pc = "next"]
    /\ UNCHANGED <<file, variant, object, declared, call, queue, processing, crashes>>

\* The flag stays up when the queue has been drained.
NextJobFlagStays(i) ==
    /\ worker[i].pc = "next"
    /\ queue[i] = <<>>
    /\ worker' = [worker EXCEPT ![i] = Idle]
    /\ Goto(worker[i].owner, "finish")
    /\ UNCHANGED <<rows, queue, processing, crashes>>

----------------------------------------------------------------------------
(* Calls *)

\* createPendingFile, first statement, for POST /upload (which declares a
\* checksum, or none where no validation pipe runs) and for one file of POST /files.
\* A rejected classification, tenant, project or node ends the call before it.
CreateFile(u, i, f, kind, sum, body) ==
    /\ call[u].pc = "unused"
    /\ file[f].status = "ABSENT"
    /\ file' = [file EXCEPT ![f] = [status |-> "PENDING_UPLOAD", checksum |-> sum]]
    /\ declared' = [declared EXCEPT ![f] = sum]
    /\ call' = [call EXCEPT ![u] = [Unused EXCEPT !.pc = "createJob", !.kind = kind, !.at = i,
                                                  !.file = f, !.body = body]]
    /\ UNCHANGED <<job, variant, object, loops, crashes>>

RequestUpload(u, i, f, sum) == CreateFile(u, i, f, "REQUEST", sum, NoContent)
IngestFile(u, i, f, body)   == CreateFile(u, i, f, "INGEST", NoContent, body)

\* createPendingFile, second statement.  ingestFiles goes on with the row it
\* just created, whose checksum is null, so nothing can mismatch.
CreateJob(u) ==
    LET f == call[u].file IN
    /\ call[u].pc = "createJob"
    /\ job' = [job EXCEPT ![f] = [status |-> "PENDING", lastError |-> "none", attempts |-> 0]]
    /\ Goto(u, IF call[u].kind = "REQUEST" THEN "done" ELSE "put")
    /\ UNCHANGED <<file, variant, object, declared, loops, crashes>>

\* receiveUploadedFile: the row read here decides whether the content is right.
Receive(u, i, f, body) ==
    /\ call[u].pc = "unused"
    /\ file[f].status # "ABSENT"
    /\ SerialClients /\ declared[f] = NoContent => \A v \in Calls : call[v].file = f => ~Open(v)
    /\ LET seen == file[f].checksum
           right == seen \in {NoContent, body}
       IN call' = [call EXCEPT ![u] =
                     [Unused EXCEPT !.pc = IF right THEN "put" ELSE "flagFile",
                                    !.kind = "PUT", !.at = i, !.file = f,
                                    !.body = body, !.seen = seen]]
    /\ UNCHANGED <<rows, loops, crashes>>

\* handleChecksumMismatch: two statements, then the exception.
FlagFile(u) ==
    /\ call[u].pc = "flagFile"
    /\ file' = [file EXCEPT ![call[u].file].status = "CHECKSUM_FAILED"]
    /\ Goto(u, "flagJob")
    /\ UNCHANGED <<job, variant, object, declared, loops, crashes>>

FlagJob(u) ==
    /\ call[u].pc = "flagJob"
    /\ JobUpdate(call[u].file, "FAILED", "CHECKSUM_MISMATCH", 0)
    /\ Goto(u, "failed")
    /\ UNCHANGED <<file, variant, object, declared, loops, crashes>>

\* uploadToLocal: writeFile truncates the object, and the bytes of every call that is
\* still writing to it follow.
OpenObject(u) ==
    LET f == call[u].file
        writing == {v \in Calls : call[v].pc = "fill" /\ call[v].file = f}
    IN
    /\ StorageDriver = "local" /\ call[u].pc = "put"
    /\ object' = [object EXCEPT ![f] = [of |-> {call[v].body : v \in writing \cup {u}},
                                        whole |-> FALSE, by |-> u]]
    /\ Goto(u, "fill")
    /\ UNCHANGED <<file, job, variant, declared, loops, crashes>>

\* The last byte is written.  If another call has truncated the object meanwhile, some
\* of this call's bytes may be gone.
FillObject(u) ==
    LET f == call[u].file IN
    /\ call[u].pc = "fill"
    /\ \E whole \in IF object[f].whole \/ object[f].by = u THEN {TRUE} ELSE BOOLEAN :
         object' = [object EXCEPT ![f].whole = whole]
    /\ Goto(u, "row")
    /\ UNCHANGED <<file, job, variant, declared, loops, crashes>>

\* uploadToSupabase: the object is replaced at once.
Replace(u) ==
    /\ StorageDriver = "supabase" /\ call[u].pc = "put"
    /\ object' = [object EXCEPT ![call[u].file] =
                    [of |-> {call[u].body}, whole |-> TRUE, by |-> u]]
    /\ UNCHANGED <<file, job, variant, declared, loops, crashes>>

PutObject(u) == Replace(u) /\ Goto(u, "row")

\* The object is replaced, and the call does not get to know.
PutUnanswered(u) == "request" \in Faults /\ Replace(u) /\ Goto(u, "failed")

\* file.update: the checksum of what this call received.
UpdateRow(u) ==
    /\ call[u].pc = "row"
    /\ file' = [file EXCEPT ![call[u].file] = [status |-> "STORED", checksum |-> call[u].body]]
    /\ Goto(u, "run")
    /\ UNCHANGED <<job, variant, object, declared, loops, crashes>>

\* ingestionJob.updateMany: only the status; lastError stays as it was.
MarkRunning(u) ==
    LET f == call[u].file IN
    /\ call[u].pc = "run"
    /\ JobUpdate(f, "RUNNING", job[f].lastError, 0)
    /\ Goto(u, "enqueue")
    /\ UNCHANGED <<file, variant, object, declared, loops, crashes>>

\* The first entry of q is shifted and handled, on behalf of call u.
Take(q, u) == [Idle EXCEPT !.pc = "read", !.file = Head(q), !.owner = u]

\* enqueueNormalizeJob up to its first await: push, and run the loop if nobody does.
Enqueue(u) ==
    LET i == call[u].at
        q == Append(queue[i], call[u].file)
    IN
    /\ call[u].pc = "enqueue"
    /\ IF processing[i]
         THEN /\ queue' = [queue EXCEPT ![i] = q]
              /\ Goto(u, "finish")
              /\ UNCHANGED <<processing, worker>>
         ELSE /\ queue' = [queue EXCEPT ![i] = Tail(q)]
              /\ processing' = [processing EXCEPT ![i] = TRUE]
              /\ worker' = [worker EXCEPT ![i] = Take(q, u)]
              /\ Goto(u, "draining")
    /\ UNCHANGED <<rows, crashes>>

\* The last statement of persistUploadedFile: the checksum once more, if the row
\* this call read at its start had none.
Finish(u) ==
    /\ call[u].pc = "finish"
    /\ file' = IF call[u].seen = NoContent
                 THEN [file EXCEPT ![call[u].file].checksum = call[u].body]
                 ELSE file
    /\ Goto(u, "reply")
    /\ UNCHANGED <<job, variant, object, declared, loops, crashes>>

\* The client of PUT is told the job's status, RUNNING if there is no job.
Reply(u) ==
    LET status == job[call[u].file].status IN
    /\ call[u].pc = "reply"
    /\ call' = [call EXCEPT ![u].pc = "done",
                            ![u].answer = IF call[u].kind # "PUT" THEN "none"
                                          ELSE IF status = "ABSENT" THEN "RUNNING" ELSE status]
    /\ UNCHANGED <<rows, loops, crashes>>

\* A statement of the call throws: it has had no effect, or has not filled the object
\* it truncated, and the call ends.
RequestFails(u) ==
    /\ "request" \in Faults
    /\ call[u].pc \in OpenPc \ {"enqueue", "draining"}
    /\ Goto(u, "failed")
    /\ UNCHANGED <<rows, loops, crashes>>

----------------------------------------------------------------------------
(* The loop of processQueue and handleJob *)

\* handleJob's findUnique: the snapshot the variants are written from.
ReadFile(i) ==
    LET f == worker[i].file IN
    /\ worker[i].pc = "read"
    /\ worker' = [worker EXCEPT ![i].pc = IF file[f].status = "ABSENT" THEN "next" ELSE "stub",
                                ![i].seen = file[f].checksum]
    /\ UNCHANGED <<rows, call, queue, processing, crashes>>

\* The transaction: the variants, upserted from the snapshot, and the job.
\* The placeholders carry no checksum and are not told apart from ORIGINAL.
WriteVariants(i) ==
    LET f == worker[i].file IN
    /\ worker[i].pc = "stub"
    /\ variant' = [variant EXCEPT ![f] = worker[i].seen]
    /\ JobUpdate(f, "COMPLETED", "none", 1)
    /\ worker' = [worker EXCEPT ![i].pc = "next"]
    /\ UNCHANGED <<file, object, declared, call, queue, processing, crashes>>

StubFails(i) ==
    /\ "stub" \in Faults
    /\ worker[i].pc = "stub"
    /\ worker' = [worker EXCEPT ![i].pc = "mark"]
    /\ UNCHANGED <<rows, call, queue, processing, crashes>>

\* The catch branch.
MarkFailed(i) ==
    /\ worker[i].pc = "mark"
    /\ JobUpdate(worker[i].file, "FAILED", "STUB_ERROR", 1)
    /\ worker' = [worker EXCEPT ![i].pc = "next"]
    /\ UNCHANGED <<file, variant, object, declared, call, queue, processing, crashes>>

\* The loop's test and shift.  When the queue is empty, the flag goes down in the
\* same step and the call that ran the loop goes on.
NextJob(i) ==
    LET u == worker[i].owner IN
    /\ worker[i].pc = "next"
    /\ IF queue[i] = <<>>
         THEN /\ processing' = [processing EXCEPT ![i] = FALSE]
              /\ worker' = [worker EXCEPT ![i] = Idle]
              /\ Goto(u, "finish")
              /\ UNCHANGED queue
         ELSE /\ queue' = [queue EXCEPT ![i] = Tail(@)]
              /\ worker' = [worker EXCEPT ![i] = Take(queue[i], u)]
              /\ UNCHANGED <<processing, call>>
    /\ UNCHANGED <<rows, crashes>>

\* handleJob throws outside its try: the exception leaves the loop, past the
\* assignment that lowers the flag, and fails the call that ran the loop.
WorkerDies(i) ==
    /\ \/ "read" \in Faults /\ worker[i].pc = "read"
       \/ "mark" \in Faults /\ worker[i].pc = "mark"
    /\ worker' = [worker EXCEPT ![i].pc = "dead"]
    /\ Goto(worker[i].owner, "failed")
    /\ UNCHANGED <<rows, queue, processing, crashes>>

\* The process is killed and started again: nothing reads the jobs table back.
Crash(i) ==
    /\ crashes < MaxCrashes
    /\ crashes' = crashes + 1
    /\ call' = [u \in Calls |-> IF Open(u) /\ call[u].at = i
                                  THEN [call[u] EXCEPT !.pc = "lost"] ELSE call[u]]
    /\ queue' = [queue EXCEPT ![i] = <<>>]
    /\ processing' = [processing EXCEPT ![i] = FALSE]
    /\ worker' = [worker EXCEPT ![i] = Idle]
    /\ UNCHANGED rows

----------------------------------------------------------------------------

Arrive(u) ==
    \E i \in Instances, f \in Files :
        \/ \E sum \in Checksum : RequestUpload(u, i, f, sum)
        \/ \E body \in Contents : IngestFile(u, i, f, body) \/ Receive(u, i, f, body)

Advance(u) ==
    \/ CreateJob(u) \/ FlagFile(u) \/ FlagJob(u)
    \/ OpenObject(u) \/ FillObject(u) \/ PutObject(u) \/ UpdateRow(u) \/ MarkRunning(u) \/ Enqueue(u)
    \/ Finish(u) \/ Reply(u)

Work(i) ==
    ReadFile(i) \/ WriteVariants(i) \/ StubFails(i) \/ MarkFailed(i) \/ NextJob(i) \/ WorkerDies(i)

Next ==
    \/ \E u \in Calls : Arrive(u) \/ Advance(u) \/ PutUnanswered(u) \/ RequestFails(u)
    \/ \E i \in Instances : Work(i) \/ Crash(i)

SafeSpec == Init /\ [][Next]_vars

\* The event loop runs every continuation whose statement has been answered.
Spec ==
    /\ SafeSpec
    /\ \A u \in Calls : WF_vars(Advance(u))
    /\ \A i \in Instances : WF_vars(Work(i))

----------------------------------------------------------------------------
(* What the code keeps *)

TypeOK ==
    /\ file \in [Files -> [status : FileStatus, checksum : Checksum]]
    /\ job \in [Files -> [status : JobStatus, lastError : LastError, attempts : Nat]]
    /\ variant \in [Files -> Checksum]
    /\ object \in [Files -> ObjectRecord]
    /\ declared \in [Files -> Checksum]
    /\ call \in [Calls -> CallRecord]
    /\ queue \in [Instances -> Seq(Files)]
    /\ processing \in [Instances -> BOOLEAN]
    /\ worker \in [Instances -> WorkerRecord]
    /\ crashes \in Nat

\* A file registered with a checksum never holds anything else: not in its row, not a byte
\* in the object store, not in the ORIGINAL variant, however calls, retries, queue and
\* restarts overlap (persistUploadedFile tests the checksum once, on a row read long
\* before it writes).  The object may be short of bytes; SettledFileAgrees says when.
DeclaredIntegrity ==
    \A f \in Files : declared[f] # NoContent =>
        /\ file[f].checksum = declared[f]
        /\ object[f].of \subseteq {declared[f]}
        /\ variant[f] \in {NoContent, declared[f]}

\* The processing flag elects exactly one drainer: the flag is up while and only while a
\* call of that instance is inside processQueue, and nothing waits in a queue nobody drains.
OneDrainer ==
    /\ \A i \in Instances :
        /\ processing[i] => worker[i].pc # "dead" /\ worker[i].owner \in Calls
                              /\ call[worker[i].owner].pc = "draining"
                              /\ call[worker[i].owner].at = i
        /\ queue[i] # <<>> => processing[i]
    /\ \A u \in Calls : call[u].pc = "draining" =>
        processing[call[u].at] /\ worker[call[u].at].owner = u

\* A job whose row says RUNNING has somebody who will settle it: a call about to enqueue
\* its file, an entry in a queue, or a loop that has not yet written the outcome.
Handled(f) ==
    \/ \E u \in Calls : call[u].pc = "enqueue" /\ call[u].file = f
    \/ \E i \in Instances :
        \/ \E k \in DOMAIN queue[i] : queue[i][k] = f
        \/ worker[i].pc \in {"read", "stub", "mark"} /\ worker[i].file = f

RunningHasOwner == \A f \in Files : job[f].status = "RUNNING" => Handled(f)

\* Files whose content is settled: by what was declared, or because clients take turns.
Told(f) == SerialClients \/ declared[f] # NoContent

\* A client told COMPLETED finds the variant of the content it sent, if the file was
\* registered with a checksum or clients take turns.
CompletedAnswerIsTrue ==
    \A u \in Calls :
        /\ call[u].answer = "COMPLETED"
        /\ Told(call[u].file)
        => variant[call[u].file] = call[u].body

\* What was stored under a recorded checksum is never replaced by anything else, also for
\* files registered without one and across restarts.  A retry of the same content may
\* truncate the object and write it once more.
OriginalImmutable ==
    [][\A f \in Files : Told(f) /\ file[f].checksum # NoContent /\ object[f].of # {}
                           => object'[f].of = object[f].of]_vars

\* With no call open on it, a stored file's row describes the stored object, of which
\* every byte is there unless the last call that wrote it broke off in the middle; and
\* once no queue or loop holds it either, a completed job means the variant describes it too.
Quiet(f) == \A u \in Calls : call[u].file = f => ~Open(u)
BrokenOff(f) == object[f].by \in Calls /\ call[object[f].by].pc \in {"failed", "lost"}

SettledFileAgrees ==
    \A f \in Files : Told(f) /\ Quiet(f) =>
        /\ file[f].status = "STORED" => /\ object[f].of = {file[f].checksum}
                                        /\ object[f].whole \/ BrokenOff(f)
        /\ job[f].status = "COMPLETED" /\ ~Handled(f) => variant[f] = file[f].checksum

\* The loop and its flag implement the queue's promise.
Promise == INSTANCE WorkQueue WITH waiting <- queue, current <- [i \in Instances |-> worker[i].file]
ServesQueue == Promise!Spec

\* Every call is answered, also the one whose request drains everybody's jobs.
CallsEnd == \A u \in Calls : Open(u) ~> ~Open(u)

\* In the end no job is left RUNNING.
JobsSettle == \A f \in Files : <>[](job[f].status # "RUNNING")

----------------------------------------------------------------------------
(* What the documentation says and the code does not keep *)

\* architecture/ingestion.md:12: the queue writes the variants of what was transferred.
\* So a file that waits in the queue leaves it, whatever happened to the one before it.
QueuedIsServed ==
    \A i \in Instances : queue[i] # <<>> ~> queue[i] = <<>>

=============================================================================
