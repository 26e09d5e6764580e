-------------------------- MODULE Ingestion_proofs --------------------------
(***************************************************************************)
(* Proofs about Ingestion, for any files, calls, contents and instances.   *)
(***************************************************************************)
EXTENDS Ingestion, SequenceTheorems, TLAPS

(***************************************************************************)
(* Type correctness.  A step looks rows up by the file a call or a loop    *)
(* holds, so the types are inductive only together with Bound: whoever is  *)
(* at work has a file, and every loop a call that runs it.                 *)
(***************************************************************************)
Used(u) == call[u].pc # "unused"

CallBound == \A u \in Calls : Used(u) => call[u].file \in Files

WorkerBound ==
    \A i \in Instances :
        IF worker[i].pc = "idle"
          THEN worker[i].file = NoFile
          ELSE worker[i].file \in Files /\ worker[i].owner \in Calls /\ Used(worker[i].owner)

Bound == CallBound /\ WorkerBound

TypeInv == TypeOK /\ Bound

LEMMA UnusedType == Unused \in CallRecord /\ Unused.pc = "unused"
  BY IngestionAssumption DEF Unused, CallRecord, CallPc, CallKind, Answer, Checksum

LEMMA IdleType == Idle \in WorkerRecord /\ Idle.pc = "idle" /\ Idle.file = NoFile
  BY DEF Idle, WorkerRecord, WorkerPc, Checksum

\* Moving a call on changes where it is and nothing else it holds.
LEMMA GotoType ==
  ASSUME TypeInv, NEW u \in Calls, call[u].file \in Files,
         NEW pc \in CallPc, pc # "unused", Goto(u, pc)
  PROVE  /\ call' \in [Calls -> CallRecord] /\ CallBound'
         /\ \A v \in Calls : Used(v) => Used(v)'
  <1>1. call' = [call EXCEPT ![u] = [call[u] EXCEPT !.pc = pc]] /\ call \in [Calls -> CallRecord]
    BY DEF Goto, TypeInv, TypeOK
  <1>2. [call[u] EXCEPT !.pc = pc] \in CallRecord
    BY <1>1 DEF CallRecord
  <1>3. call' \in [Calls -> CallRecord]
    BY <1>1, <1>2
  <1>4. ASSUME NEW v \in Calls PROVE Used(v)' => call'[v].file \in Files
    BY <1>1 DEF CallRecord, TypeInv, Bound, CallBound, Used
  <1>5. ASSUME NEW v \in Calls PROVE Used(v) => Used(v)'
    BY <1>1 DEF CallRecord, Used
  <1> QED BY <1>3, <1>4, <1>5 DEF CallBound

\* updateMany keeps the jobs table well typed.
LEMMA JobUpdateType ==
  ASSUME TypeOK, NEW f \in Files, NEW s \in JobStatus, NEW e \in LastError, NEW n \in Nat,
         JobUpdate(f, s, e, n)
  PROVE  job' \in [Files -> [status : JobStatus, lastError : LastError, attempts : Nat]]
  BY DEF TypeOK, JobUpdate

\* So does a loop that holds a file on behalf of some call.
LEMMA WorkerType ==
  ASSUME TypeInv, NEW i \in Instances, NEW w \in WorkerRecord,
         w.pc # "idle", w.file \in Files, w.owner \in Calls, Used(w.owner),
         \A v \in Calls : Used(v) => Used(v)',
         worker' = [worker EXCEPT ![i] = w]
  PROVE  worker' \in [Instances -> WorkerRecord] /\ WorkerBound'
  <1>1. worker' \in [Instances -> WorkerRecord]
    BY DEF TypeInv, TypeOK
  <1>2. ASSUME NEW k \in Instances, k # i
        PROVE  worker'[k] = worker[k]
    BY <1>2 DEF TypeInv, TypeOK
  <1>3. worker'[i] = w
    BY DEF TypeInv, TypeOK
  <1> QED BY <1>1, <1>2, <1>3 DEF TypeInv, Bound, WorkerBound

\* Moving a loop on changes where it is and nothing else it holds.
LEMMA WorkerGotoType ==
  ASSUME TypeInv, NEW i \in Instances, worker[i].pc # "idle",
         NEW pc \in WorkerPc, pc # "idle",
         \A v \in Calls : Used(v) => Used(v)',
         worker' = [worker EXCEPT ![i].pc = pc]
  PROVE  worker' \in [Instances -> WorkerRecord] /\ WorkerBound'
  <1> DEFINE w == [worker[i] EXCEPT !.pc = pc]
  <1>1. w \in WorkerRecord /\ w.pc = pc /\ w.file = worker[i].file /\ w.owner = worker[i].owner
    BY DEF TypeInv, TypeOK, WorkerRecord
  <1>2. worker' = [worker EXCEPT ![i] = w]
    OBVIOUS
  <1>3. w.file \in Files /\ w.owner \in Calls /\ Used(w.owner)
    BY <1>1 DEF TypeInv, Bound, WorkerBound
  <1> HIDE DEF w
  <1> QED BY <1>1, <1>2, <1>3, WorkerType

(***************************************************************************)
(* The steps of an upload, whichever driver stores the object, move the    *)
(* call on and change the object of its file and nothing else.             *)
(***************************************************************************)
Upload(u) == OpenObject(u) \/ FillObject(u) \/ PutObject(u) \/ PutUnanswered(u)

LEMMA UploadStep ==
  ASSUME TypeInv, NEW u \in Calls, Upload(u)
  PROVE  /\ call[u].pc \in {"put", "fill"} /\ call[u].file \in Files /\ Used(u)
         /\ \E pc \in {"fill", "row", "failed"} : Goto(u, pc)
         /\ UNCHANGED <<file, job, variant, declared, loops, crashes>>
         /\ object' \in [Files -> ObjectRecord]
         /\ \A f \in Files : f # call[u].file => object'[f] = object[f]
  <1>1. call[u].pc \in {"put", "fill"} /\ call[u].file \in Files /\ Used(u)
    BY DEF Upload, OpenObject, FillObject, PutObject, PutUnanswered, Replace, TypeInv, Bound,
           CallBound, Used
  <1>2. \A v \in Calls : call[v].body \in Checksum
    BY DEF TypeInv, TypeOK, CallRecord
  <1>3. \E o \in ObjectRecord : object' = [object EXCEPT ![call[u].file] = o]
    <2>1. CASE OpenObject(u)
      <3> DEFINE writing == {v \in Calls : call[v].pc = "fill" /\ call[v].file = call[u].file}
                 o == [of |-> {call[v].body : v \in writing \cup {u}}, whole |-> FALSE, by |-> u]
      <3>1. o \in ObjectRecord
        BY <1>2 DEF ObjectRecord
      <3> QED BY <2>1, <3>1 DEF OpenObject
    <2>2. CASE FillObject(u)
      <3>1. PICK w \in BOOLEAN : object' = [object EXCEPT ![call[u].file].whole = w]
        BY <2>2 DEF FillObject
      <3> DEFINE o == [object[call[u].file] EXCEPT !.whole = w]
      <3>2. o \in ObjectRecord /\ object' = [object EXCEPT ![call[u].file] = o]
        BY <1>1, <3>1 DEF TypeInv, TypeOK, ObjectRecord
      <3> QED BY <3>2
    <2>3. CASE PutObject(u) \/ PutUnanswered(u)
      <3>1. Replace(u)
        BY <2>3 DEF PutObject, PutUnanswered
      <3> QED BY <1>2, <3>1 DEF Replace, ObjectRecord
    <2> QED BY <2>1, <2>2, <2>3 DEF Upload
  <1>4. /\ \E pc \in {"fill", "row", "failed"} : Goto(u, pc)
        /\ UNCHANGED <<file, job, variant, declared, loops, crashes>>
    BY DEF Upload, OpenObject, FillObject, PutObject, PutUnanswered, Replace
  <1> QED BY <1>1, <1>3, <1>4 DEF TypeInv, TypeOK

\* The bytes of an object are those that were there, or come from calls that write to it.
LEMMA UploadOf ==
  ASSUME TypeInv, NEW u \in Calls, Upload(u), NEW f, f = call[u].file
  PROVE  \/ call[u].pc = "fill" /\ object'[f].of = object[f].of /\ object'[f].by = object[f].by
            /\ (object[f].whole \/ object[f].by = u => object'[f].whole)
            /\ Goto(u, "row")
         \/ /\ call[u].pc = "put" /\ object'[f].by = u /\ call[u].body \in object'[f].of
            /\ \A c \in object'[f].of : \E v \in Calls :
                 call[v].body = c /\ call[v].file = f /\ (v = u \/ call[v].pc = "fill")
            /\ (object'[f].whole \/ Goto(u, "fill"))
  <1>1. f \in Files /\ object \in [Files -> ObjectRecord]
    BY UploadStep DEF TypeInv, TypeOK
  <1>2. CASE OpenObject(u)
    <2>1. /\ call[u].pc = "put" /\ Goto(u, "fill")
          /\ object'[f] = [of |-> {call[v].body : v \in {w \in Calls :
                             call[w].pc = "fill" /\ call[w].file = f} \cup {u}},
                           whole |-> FALSE, by |-> u]
      BY <1>1, <1>2 DEF OpenObject
    <2> QED BY <2>1
  <1>3. CASE FillObject(u)
    <2>1. PICK w \in IF object[f].whole \/ object[f].by = u THEN {TRUE} ELSE BOOLEAN :
             object' = [object EXCEPT ![f].whole = w]
      BY <1>3 DEF FillObject
    <2>2. /\ object'[f].of = object[f].of /\ object'[f].by = object[f].by
          /\ object'[f].whole = w
      BY <1>1, <2>1 DEF ObjectRecord
    <2> QED BY <1>3, <2>1, <2>2 DEF FillObject
  <1>4. CASE PutObject(u) \/ PutUnanswered(u)
    BY <1>1, <1>4 DEF PutObject, PutUnanswered, Replace
  <1> QED BY <1>2, <1>3, <1>4 DEF Upload

LEMMA InitTypeInv == Init => TypeInv
  BY UnusedType, IdleType, IngestionAssumption
     DEF Init, NoObject, ObjectRecord, TypeInv, TypeOK, Bound, CallBound, WorkerBound, Used, FileStatus, JobStatus, LastError, Checksum

LEMMA TypeInvStep == TypeInv /\ [Next]_vars => TypeInv'
  <1> SUFFICES ASSUME TypeInv, [Next]_vars PROVE TypeInv'
    OBVIOUS
  <1> USE DEF rows, loops, OpenPc, CallPc, WorkerPc, FileStatus, JobStatus, LastError
  <1>1. ASSUME NEW u \in Calls, NEW i \in Instances, NEW f \in Files, NEW kind \in CallKind,
               NEW sum \in Checksum, NEW body \in Checksum, CreateFile(u, i, f, kind, sum, body)
        PROVE  TypeInv'
    <2> DEFINE c == [Unused EXCEPT !.pc = "createJob", !.kind = kind, !.at = i,
                                   !.file = f, !.body = body]
    <2>1. c \in CallRecord /\ c.pc = "createJob" /\ c.file = f
      BY UnusedType DEF CallRecord
    <2>2. call' = [call EXCEPT ![u] = c]
      BY <1>1 DEF CreateFile
    <2>3. call' \in [Calls -> CallRecord]
      BY <2>1, <2>2 DEF TypeInv, TypeOK
    <2>4. CallBound' /\ \A v \in Calls : Used(v) => Used(v)'
      BY <2>1, <2>2 DEF TypeInv, TypeOK, Bound, CallBound, Used
    <2> QED BY <1>1, <2>3, <2>4 DEF CreateFile, TypeInv, TypeOK, Bound, WorkerBound
  <1>2. ASSUME NEW u \in Calls, CreateJob(u) PROVE TypeInv'
    <2>1. call[u].file \in Files
      BY <1>2 DEF CreateJob, TypeInv, Bound, CallBound, Used
    <2>2. PICK pc \in {"done", "put"} : Goto(u, pc)
      BY <1>2 DEF CreateJob
    <2>3. /\ call' \in [Calls -> CallRecord] /\ CallBound'
          /\ \A v \in Calls : Used(v) => Used(v)'
      BY <2>1, <2>2, GotoType
    <2> QED BY <1>2, <2>1, <2>3 DEF CreateJob, TypeInv, TypeOK, Bound, WorkerBound
  <1>3. ASSUME NEW u \in Calls, NEW i \in Instances, NEW f \in Files, NEW body \in Contents,
               Receive(u, i, f, body)
        PROVE  TypeInv'
    <2> DEFINE right == file[f].checksum \in {NoContent, body}
               c == [Unused EXCEPT !.pc = IF right THEN "put" ELSE "flagFile",
                                   !.kind = "PUT", !.at = i, !.file = f,
                                   !.body = body, !.seen = file[f].checksum]
    <2>1. c \in CallRecord /\ c.file = f
      BY UnusedType DEF CallRecord, CallKind, Checksum, TypeInv, TypeOK
    <2>2. call' = [call EXCEPT ![u] = c]
      BY <1>3 DEF Receive
    <2>3. call' \in [Calls -> CallRecord]
      BY <2>1, <2>2 DEF TypeInv, TypeOK
    <2>4. CallBound' /\ \A v \in Calls : Used(v) => Used(v)'
      BY <2>1, <2>2 DEF TypeInv, TypeOK, Bound, CallBound, Used
    <2> QED BY <1>3, <2>3, <2>4 DEF Receive, TypeInv, TypeOK, Bound, WorkerBound
  <1>4. ASSUME NEW u \in Calls, FlagFile(u) PROVE TypeInv'
    <2>1. call[u].file \in Files
      BY <1>4 DEF FlagFile, TypeInv, Bound, CallBound, Used
    <2>2. /\ call' \in [Calls -> CallRecord] /\ CallBound'
          /\ \A v \in Calls : Used(v) => Used(v)'
      BY <1>4, <2>1, GotoType DEF FlagFile
    <2> QED BY <1>4, <2>1, <2>2 DEF FlagFile, TypeInv, TypeOK, Bound, WorkerBound
  <1>5. ASSUME NEW u \in Calls, FlagJob(u) PROVE TypeInv'
    <2>1. call[u].file \in Files
      BY <1>5 DEF FlagJob, TypeInv, Bound, CallBound, Used
    <2>2. /\ call' \in [Calls -> CallRecord] /\ CallBound'
          /\ \A v \in Calls : Used(v) => Used(v)'
      BY <1>5, <2>1, GotoType DEF FlagJob
    <2>3. job' \in [Files -> [status : JobStatus, lastError : LastError, attempts : Nat]]
      BY <1>5, <2>1, JobUpdateType DEF FlagJob, TypeInv
    <2> QED BY <1>5, <2>2, <2>3 DEF FlagJob, TypeInv, TypeOK, Bound, WorkerBound
  <1>6. ASSUME NEW u \in Calls, Upload(u) PROVE TypeInv'
    <2>1. call[u].file \in Files
      BY <1>6, UploadStep
    <2>2. PICK pc \in {"fill", "row", "failed"} : Goto(u, pc)
      BY <1>6, UploadStep
    <2>3. /\ call' \in [Calls -> CallRecord] /\ CallBound'
          /\ \A v \in Calls : Used(v) => Used(v)'
      BY <2>1, <2>2, GotoType
    <2> QED BY <1>6, <2>1, <2>3, UploadStep DEF TypeInv, TypeOK, Bound, WorkerBound
  <1>7. ASSUME NEW u \in Calls, UpdateRow(u) PROVE TypeInv'
    <2>1. call[u].file \in Files /\ call[u].body \in Checksum
      BY <1>7 DEF UpdateRow, TypeInv, TypeOK, Bound, CallBound, Used, CallRecord
    <2>2. /\ call' \in [Calls -> CallRecord] /\ CallBound'
          /\ \A v \in Calls : Used(v) => Used(v)'
      BY <1>7, <2>1, GotoType DEF UpdateRow
    <2> QED BY <1>7, <2>1, <2>2 DEF UpdateRow, TypeInv, TypeOK, Bound, WorkerBound
  <1>8. ASSUME NEW u \in Calls, MarkRunning(u) PROVE TypeInv'
    <2>1. call[u].file \in Files
      BY <1>8 DEF MarkRunning, TypeInv, Bound, CallBound, Used
    <2>2. /\ call' \in [Calls -> CallRecord] /\ CallBound'
          /\ \A v \in Calls : Used(v) => Used(v)'
      BY <1>8, <2>1, GotoType DEF MarkRunning
    <2>3. job[call[u].file].lastError \in LastError
      BY <2>1 DEF TypeInv, TypeOK
    <2>4. job' \in [Files -> [status : JobStatus, lastError : LastError, attempts : Nat]]
      BY <1>8, <2>1, <2>3, JobUpdateType DEF MarkRunning, TypeInv
    <2> QED BY <1>8, <2>2, <2>4 DEF MarkRunning, TypeInv, TypeOK, Bound, WorkerBound
  <1>9. ASSUME NEW u \in Calls, Enqueue(u) PROVE TypeInv'
    <2> DEFINE i == call[u].at
               q == Append(queue[i], call[u].file)
    <2>1. call[u].file \in Files /\ i \in Instances /\ queue[i] \in Seq(Files)
      BY <1>9 DEF Enqueue, TypeInv, TypeOK, Bound, CallBound, Used, CallRecord
    <2>2. q \in Seq(Files) /\ q # <<>> /\ Head(q) \in Files /\ Tail(q) \in Seq(Files)
      BY <2>1, AppendProperties, HeadTailProperties
    <2>3. PICK pc \in {"finish", "draining"} : Goto(u, pc)
      BY <1>9 DEF Enqueue
    <2>4. /\ call' \in [Calls -> CallRecord] /\ CallBound'
          /\ \A v \in Calls : Used(v) => Used(v)'
      BY <2>1, <2>3, GotoType
    <2>5. CASE processing[i]
      <3>1. queue' = [queue EXCEPT ![i] = q] /\ UNCHANGED <<processing, worker>>
        BY <1>9, <2>5 DEF Enqueue
      <3> QED BY <1>9, <2>2, <2>4, <3>1 DEF Enqueue, TypeInv, TypeOK, Bound, WorkerBound
    <2>6. CASE ~processing[i]
      <3>1. /\ queue' = [queue EXCEPT ![i] = Tail(q)]
            /\ processing' = [processing EXCEPT ![i] = TRUE]
            /\ worker' = [worker EXCEPT ![i] = Take(q, u)]
        BY <1>9, <2>6 DEF Enqueue
      <3>2. Take(q, u) \in WorkerRecord /\ Take(q, u).pc = "read"
            /\ Take(q, u).file \in Files /\ Take(q, u).owner = u
        BY <2>2, IdleType DEF Take, WorkerRecord
      <3>3. worker' \in [Instances -> WorkerRecord] /\ WorkerBound'
        BY <1>9, <2>1, <2>4, <3>1, <3>2, WorkerType DEF Enqueue, Used
      <3> QED BY <1>9, <2>1, <2>2, <2>4, <3>1, <3>3 DEF Enqueue, TypeInv, TypeOK, Bound
    <2> QED BY <2>5, <2>6
  <1>10. ASSUME NEW u \in Calls, Finish(u) PROVE TypeInv'
    <2>1. call[u].file \in Files /\ call[u].body \in Checksum
      BY <1>10 DEF Finish, TypeInv, TypeOK, Bound, CallBound, Used, CallRecord
    <2>2. /\ call' \in [Calls -> CallRecord] /\ CallBound'
          /\ \A v \in Calls : Used(v) => Used(v)'
      BY <1>10, <2>1, GotoType DEF Finish
    <2> QED BY <1>10, <2>1, <2>2 DEF Finish, TypeInv, TypeOK, Bound, WorkerBound
  <1>11. ASSUME NEW u \in Calls, Reply(u) PROVE TypeInv'
    <2>1. call[u].file \in Files
      BY <1>11 DEF Reply, TypeInv, Bound, CallBound, Used
    <2> DEFINE status == job[call[u].file].status
               a == IF call[u].kind # "PUT" THEN "none"
                    ELSE IF status = "ABSENT" THEN "RUNNING" ELSE status
    <2>2. a \in Answer
      BY <2>1 DEF Answer, TypeInv, TypeOK
    <2>3. call' = [call EXCEPT ![u] = [call[u] EXCEPT !.pc = "done", !.answer = a]]
      BY <1>11 DEF Reply
    <2>4. [call[u] EXCEPT !.pc = "done", !.answer = a] \in CallRecord
      BY <2>2 DEF CallRecord, TypeInv, TypeOK
    <2>5. call' \in [Calls -> CallRecord]
      BY <2>3, <2>4 DEF TypeInv, TypeOK
    <2>6. CallBound' /\ \A v \in Calls : Used(v) => Used(v)'
      BY <2>1, <2>3 DEF TypeInv, TypeOK, Bound, CallBound, Used, CallRecord
    <2> QED BY <1>11, <2>5, <2>6 DEF Reply, TypeInv, TypeOK, Bound, WorkerBound
  <1>12. ASSUME NEW u \in Calls, RequestFails(u) PROVE TypeInv'
    <2>1. call[u].file \in Files
      BY <1>12 DEF RequestFails, TypeInv, Bound, CallBound, Used
    <2>2. /\ call' \in [Calls -> CallRecord] /\ CallBound'
          /\ \A v \in Calls : Used(v) => Used(v)'
      BY <1>12, <2>1, GotoType DEF RequestFails
    <2> QED BY <1>12, <2>2 DEF RequestFails, TypeInv, TypeOK, Bound, WorkerBound
  <1>13. ASSUME NEW i \in Instances, Work(i) PROVE TypeInv'
    <2>1. CASE ReadFile(i)
      <3> DEFINE w == [worker[i] EXCEPT !.pc = IF file[worker[i].file].status = "ABSENT"
                                                THEN "next" ELSE "stub",
                                        !.seen = file[worker[i].file].checksum]
      <3>1. worker[i].file \in Files /\ worker[i].pc # "idle"
        BY <2>1 DEF ReadFile, TypeInv, Bound, WorkerBound
      <3>2. w \in WorkerRecord /\ w.pc # "idle"
            /\ w.file = worker[i].file /\ w.owner = worker[i].owner
        BY <3>1 DEF WorkerRecord, TypeInv, TypeOK
      <3>3. worker' = [worker EXCEPT ![i] = w]
        BY <2>1 DEF ReadFile
      <3>4. worker[i].owner \in Calls /\ Used(worker[i].owner) /\ UNCHANGED call
        BY <2>1 DEF ReadFile, TypeInv, Bound, WorkerBound
      <3>5. worker' \in [Instances -> WorkerRecord] /\ WorkerBound'
        BY <3>1, <3>2, <3>3, <3>4, WorkerType DEF Used
      <3>6. TypeOK'
        BY <2>1, <3>5 DEF ReadFile, TypeInv, TypeOK
      <3>7. CallBound'
        BY <3>4 DEF TypeInv, Bound, CallBound, Used
      <3> QED BY <3>5, <3>6, <3>7 DEF TypeInv, Bound
    <2>3. CASE WriteVariants(i)
      <3>1. worker[i].file \in Files /\ worker[i].seen \in Checksum
        BY <2>3 DEF WriteVariants, TypeInv, TypeOK, Bound, WorkerBound, WorkerRecord
      <3>2. job' \in [Files -> [status : JobStatus, lastError : LastError, attempts : Nat]]
        BY <2>3, <3>1, JobUpdateType DEF WriteVariants, TypeInv
      <3>3. worker' \in [Instances -> WorkerRecord] /\ WorkerBound'
        BY <2>3, WorkerGotoType DEF WriteVariants, Used
      <3> QED BY <2>3, <3>1, <3>2, <3>3 DEF WriteVariants, TypeInv, TypeOK, Bound, CallBound, Used
    <2>4. CASE StubFails(i)
      <3>1. worker' \in [Instances -> WorkerRecord] /\ WorkerBound'
        BY <2>4, WorkerGotoType DEF StubFails, Used
      <3> QED BY <2>4, <3>1 DEF StubFails, TypeInv, TypeOK, Bound, CallBound, Used
    <2>5. CASE MarkFailed(i)
      <3>1. worker[i].file \in Files
        BY <2>5 DEF MarkFailed, TypeInv, Bound, WorkerBound
      <3>2. job' \in [Files -> [status : JobStatus, lastError : LastError, attempts : Nat]]
        BY <2>5, <3>1, JobUpdateType DEF MarkFailed, TypeInv
      <3>3. worker' \in [Instances -> WorkerRecord] /\ WorkerBound'
        BY <2>5, WorkerGotoType DEF MarkFailed, Used
      <3> QED BY <2>5, <3>2, <3>3 DEF MarkFailed, TypeInv, TypeOK, Bound, CallBound, Used
    <2>6. CASE NextJob(i)
      <3>1. worker[i].owner \in Calls /\ queue[i] \in Seq(Files)
        BY <2>6 DEF NextJob, TypeInv, TypeOK, Bound, WorkerBound
      <3>2. CASE queue[i] = <<>>
        <4>1. /\ processing' = [processing EXCEPT ![i] = FALSE]
              /\ worker' = [worker EXCEPT ![i] = Idle]
              /\ Goto(worker[i].owner, "finish")
              /\ UNCHANGED <<rows, queue, crashes>>
          BY <2>6, <3>2 DEF NextJob
        <4>2. call[worker[i].owner].file \in Files
          BY <2>6 DEF NextJob, TypeInv, Bound, CallBound, WorkerBound
        <4>3. /\ call' \in [Calls -> CallRecord] /\ CallBound'
              /\ \A v \in Calls : Used(v) => Used(v)'
          BY <3>1, <4>1, <4>2, GotoType
        <4>4. worker' \in [Instances -> WorkerRecord]
          BY <4>1, IdleType DEF TypeInv, TypeOK
        <4> QED BY <4>1, <4>3, <4>4, IdleType DEF TypeInv, TypeOK, Bound, WorkerBound
      <3>3. CASE queue[i] # <<>>
        <4>1. /\ queue' = [queue EXCEPT ![i] = Tail(@)]
              /\ worker' = [worker EXCEPT ![i] = Take(queue[i], worker[i].owner)]
              /\ UNCHANGED <<rows, call, processing, crashes>>
          BY <2>6, <3>3 DEF NextJob
        <4> DEFINE w == Take(queue[i], worker[i].owner)
        <4>2. w \in WorkerRecord /\ w.pc = "read" /\ w.file \in Files
              /\ w.owner = worker[i].owner
          BY <3>1, <3>3, IdleType, HeadTailProperties DEF Take, WorkerRecord
        <4>3. worker' \in [Instances -> WorkerRecord] /\ WorkerBound'
          <5>1. Used(worker[i].owner) /\ \A v \in Calls : Used(v) => Used(v)'
            BY <2>6, <4>1 DEF NextJob, TypeInv, Bound, WorkerBound, Used
          <5> QED BY <3>1, <4>1, <4>2, <5>1, WorkerType
        <4>4. queue' \in [Instances -> Seq(Files)]
          BY <3>1, <3>3, <4>1, HeadTailProperties DEF TypeInv, TypeOK
        <4> QED BY <4>1, <4>3, <4>4 DEF TypeInv, TypeOK, Bound, CallBound, Used
      <3> QED BY <3>2, <3>3
    <2>7. CASE WorkerDies(i)
      <3>1. worker[i].pc # "idle" /\ worker[i].owner \in Calls /\ call[worker[i].owner].file \in Files
        BY <2>7 DEF WorkerDies, TypeInv, Bound, CallBound, WorkerBound
      <3>2. /\ call' \in [Calls -> CallRecord] /\ CallBound'
            /\ \A v \in Calls : Used(v) => Used(v)'
        BY <2>7, <3>1, GotoType DEF WorkerDies
      <3>3. worker' \in [Instances -> WorkerRecord] /\ WorkerBound'
        BY <2>7, <3>1, <3>2, WorkerGotoType DEF WorkerDies
      <3> QED BY <2>7, <3>2, <3>3 DEF WorkerDies, TypeInv, TypeOK, Bound
    <2> QED BY <1>13, <2>1, <2>3, <2>4, <2>5, <2>6, <2>7 DEF Work
  <1>14. ASSUME NEW i \in Instances, Crash(i) PROVE TypeInv'
    <2>1. \A u \in Calls : [call[u] EXCEPT !.pc = "lost"] \in CallRecord
      BY DEF CallRecord, TypeInv, TypeOK
    <2>2. call' \in [Calls -> CallRecord]
      BY <1>14, <2>1 DEF Crash, TypeInv, TypeOK
    <2>3. CallBound' /\ \A u \in Calls : Used(u) => Used(u)'
      BY <1>14 DEF Crash, Open, TypeInv, TypeOK, Bound, CallBound, Used, CallRecord
    <2>4. worker' \in [Instances -> WorkerRecord] /\ WorkerBound'
      BY <1>14, <2>3, IdleType DEF Crash, TypeInv, TypeOK, Bound, WorkerBound
    <2> QED BY <1>14, <2>2, <2>3, <2>4, IngestionAssumption DEF Crash, TypeInv, TypeOK, Bound
  <1>15. CASE UNCHANGED vars
    BY <1>15 DEF vars, TypeInv, TypeOK, Bound, CallBound, WorkerBound, Used
  <1> QED
    BY <1>1, <1>2, <1>3, <1>4, <1>5, <1>6, <1>7, <1>8, <1>9, <1>10, <1>11, <1>12, <1>13, <1>14, <1>15
       DEF Next, Arrive, Advance, Upload, RequestUpload, IngestFile, CallKind, Checksum

\* Every row, call, queue and loop keeps its type in every reachable state.
THEOREM TypeCorrect == SafeSpec => []TypeOK
  <1>1. TypeInv => TypeOK
    BY DEF TypeInv
  <1> QED BY InitTypeInv, TypeInvStep, <1>1, PTL DEF SafeSpec

(***************************************************************************)
(* The loops.  The processing flag is up exactly while a loop exists; a    *)
(* loop at work belongs to one call of its own instance that is inside     *)
(* processQueue, and the other way round; nothing waits where no loop is.  *)
(* A loop whose handleJob threw stays in the way of all that: it is "dead",*)
(* its flag is up and no call runs it.                                     *)
(***************************************************************************)
AtWork == {"read", "stub", "mark", "next"}

FlagUp == \A i \in Instances : processing[i] <=> worker[i].pc # "idle"

NoStray == \A i \in Instances : queue[i] # <<>> => worker[i].pc # "idle"

LoopOwned ==
    \A i \in Instances : worker[i].pc \in AtWork =>
        call[worker[i].owner].pc = "draining" /\ call[worker[i].owner].at = i

CallLoops ==
    \A u \in Calls : call[u].pc = "draining" =>
        worker[call[u].at].pc \in AtWork /\ worker[call[u].at].owner = u

LoopInv == FlagUp /\ NoStray /\ LoopOwned /\ CallLoops

\* Where a call is served never changes while it moves, nor does anything else it holds.
LEMMA CallGoto ==
  ASSUME TypeInv, NEW u \in Calls, NEW pc, Goto(u, pc)
  PROVE  \A v \in Calls : /\ call'[v].pc = IF v = u THEN pc ELSE call[v].pc
                          /\ call'[v].at = call[v].at /\ call'[v].file = call[v].file
  <1>1. call' = [call EXCEPT ![u].pc = pc] /\ call \in [Calls -> CallRecord]
    BY DEF Goto, TypeInv, TypeOK
  <1> QED BY <1>1 DEF CallRecord

LEMMA Served == ASSUME TypeInv PROVE \A v \in Calls : call[v].at \in Instances
  BY DEF TypeInv, TypeOK, CallRecord

LEMMA Owners == ASSUME TypeInv
                PROVE \A i \in Instances : worker[i].pc # "idle" => worker[i].owner \in Calls
  BY DEF TypeInv, Bound, WorkerBound

LEMMA InitLoop == Init => LoopInv
  BY UnusedType, IdleType DEF Init, LoopInv, FlagUp, NoStray, LoopOwned, CallLoops, AtWork

\* Steps that touch no loop and neither enter nor leave processQueue.
LEMMA LoopFrame ==
  ASSUME TypeInv, LoopInv, UNCHANGED loops,
         \A v \in Calls : /\ call'[v].pc = "draining" <=> call[v].pc = "draining"
                          /\ call[v].pc = "draining" => call'[v].at = call[v].at
  PROVE  LoopInv'
  <1>1. FlagUp' /\ NoStray'
    BY DEF LoopInv, FlagUp, NoStray, loops
  <1>2. UNCHANGED worker
    BY DEF loops
  <1>3. LoopOwned' /\ CallLoops'
    BY <1>2, Served, Owners DEF LoopInv, LoopOwned, CallLoops, AtWork
  <1> QED BY <1>1, <1>3 DEF LoopInv

\* Of these, the ones that move a call from one place outside the loop to another.
LEMMA LoopGoto ==
  ASSUME TypeInv, LoopInv, UNCHANGED loops, NEW u \in Calls, NEW pc \in CallPc,
         Goto(u, pc), pc # "draining", call[u].pc # "draining"
  PROVE  LoopInv'
  <1>1. \A v \in Calls : /\ call'[v].pc = IF v = u THEN pc ELSE call[v].pc
                         /\ call'[v].at = call[v].at
    BY CallGoto
  <1> QED BY <1>1, LoopFrame

LEMMA LoopStep == TypeInv /\ LoopInv /\ [Next]_vars => LoopInv'
  <1> SUFFICES ASSUME TypeInv, LoopInv, [Next]_vars PROVE LoopInv'
    OBVIOUS
  <1> USE DEF AtWork
  <1>2. ASSUME NEW u \in Calls, Arrive(u) PROVE LoopInv'
    <2>1. ASSUME NEW i \in Instances, NEW f \in Files, NEW kind, NEW sum, NEW body,
                 CreateFile(u, i, f, kind, sum, body)
          PROVE  LoopInv'
      <3> DEFINE c == [Unused EXCEPT !.pc = "createJob", !.kind = kind, !.at = i,
                                     !.file = f, !.body = body]
      <3>1. c.pc \in {"createJob", "put", "flagFile"}
        BY UnusedType DEF CallRecord
      <3>2. call' = [call EXCEPT ![u] = c] /\ call[u].pc = "unused" /\ UNCHANGED loops
        BY <2>1 DEF CreateFile
      <3> HIDE DEF c
      <3>3. \A v \in Calls : call'[v] = IF v = u THEN c ELSE call[v]
        BY <3>2 DEF TypeInv, TypeOK
      <3> QED BY <3>1, <3>2, <3>3, LoopFrame
    <2>2. ASSUME NEW i \in Instances, NEW f \in Files, NEW body, Receive(u, i, f, body)
          PROVE  LoopInv'
      <3> DEFINE right == file[f].checksum \in {NoContent, body}
                 c == [Unused EXCEPT !.pc = IF right THEN "put" ELSE "flagFile",
                                     !.kind = "PUT", !.at = i, !.file = f,
                                     !.body = body, !.seen = file[f].checksum]
      <3>1. c.pc \in {"createJob", "put", "flagFile"}
        BY UnusedType DEF CallRecord
      <3>2. call' = [call EXCEPT ![u] = c] /\ call[u].pc = "unused" /\ UNCHANGED loops
        BY <2>2 DEF Receive
      <3> HIDE DEF c
      <3>3. \A v \in Calls : call'[v] = IF v = u THEN c ELSE call[v]
        BY <3>2 DEF TypeInv, TypeOK
      <3> QED BY <3>1, <3>2, <3>3, LoopFrame
    <2> QED BY <1>2, <2>1, <2>2 DEF Arrive, RequestUpload, IngestFile
  <1>3. ASSUME NEW u \in Calls, Advance(u) \/ PutUnanswered(u), ~Enqueue(u), ~Reply(u)
        PROVE  LoopInv'
    <2>1. PICK pc \in OpenPc \cup {"done", "failed"} :
             /\ Goto(u, pc) /\ pc # "draining" /\ call[u].pc # "draining"
             /\ UNCHANGED loops
      <3>1. CASE Upload(u)
        BY <3>1, UploadStep DEF OpenPc
      <3>2. CASE ~Upload(u)
        BY <1>3, <3>2 DEF Advance, Upload, CreateJob, FlagFile, FlagJob, UpdateRow, MarkRunning,
                          Finish, OpenPc
      <3> QED BY <3>1, <3>2
    <2> QED BY <2>1, LoopGoto DEF CallPc, OpenPc
  <1>4. ASSUME NEW u \in Calls, RequestFails(u) PROVE LoopInv'
    BY <1>4, LoopGoto DEF RequestFails, CallPc, OpenPc
  <1>5. ASSUME NEW u \in Calls, Reply(u) PROVE LoopInv'
    <2>1. \A v \in Calls : /\ call'[v].pc = IF v = u THEN "done" ELSE call[v].pc
                           /\ call'[v].at = call[v].at
      BY <1>5 DEF Reply, TypeInv, TypeOK, CallRecord
    <2>2. call[u].pc # "draining" /\ UNCHANGED loops
      BY <1>5 DEF Reply
    <2> QED BY <2>1, <2>2, LoopFrame
  <1>6. ASSUME NEW u \in Calls, Enqueue(u) PROVE LoopInv'
    <2> DEFINE i == call[u].at
               q == Append(queue[i], call[u].file)
    <2>1. i \in Instances /\ call[u].pc = "enqueue"
      BY <1>6, Served DEF Enqueue
    <2>2. CASE processing[i]
      <3>1. /\ queue' = [queue EXCEPT ![i] = q] /\ Goto(u, "finish")
            /\ UNCHANGED <<processing, worker>>
        BY <1>6, <2>2 DEF Enqueue
      <3>2. worker[i].pc # "idle"
        BY <2>1, <2>2 DEF LoopInv, FlagUp
      <3>3. NoStray'
        BY <3>1, <3>2 DEF LoopInv, NoStray, TypeInv, TypeOK
      <3>4. FlagUp'
        BY <3>1 DEF LoopInv, FlagUp
      <3>5. LoopOwned' /\ CallLoops'
        BY <2>1, <3>1, CallGoto, Served, Owners DEF LoopInv, LoopOwned, CallLoops
      <3> QED BY <3>3, <3>4, <3>5 DEF LoopInv
    <2>3. CASE ~processing[i]
      <3>1. /\ queue' = [queue EXCEPT ![i] = Tail(q)] /\ Goto(u, "draining")
            /\ processing' = [processing EXCEPT ![i] = TRUE]
            /\ worker' = [worker EXCEPT ![i] = Take(q, u)]
        BY <1>6, <2>3 DEF Enqueue
      <3>2. worker[i].pc = "idle"
        BY <2>1, <2>3 DEF LoopInv, FlagUp
      <3>3. Take(q, u).pc = "read" /\ Take(q, u).owner = u
        BY DEF Take, Idle
      <3> HIDE DEF q
      <3>4. \A k \in Instances : worker'[k] = IF k = i THEN Take(q, u) ELSE worker[k]
        BY <3>1 DEF TypeInv, TypeOK
      <3>5. \A k \in Instances : k # i => processing'[k] = processing[k] /\ queue'[k] = queue[k]
        BY <3>1 DEF TypeInv, TypeOK
      <3>6. processing'[i]
        BY <2>1, <3>1 DEF TypeInv, TypeOK
      <3>7. FlagUp'
        BY <2>1, <3>3, <3>4, <3>5, <3>6 DEF LoopInv, FlagUp
      <3>8. NoStray'
        BY <2>1, <3>3, <3>4, <3>5 DEF LoopInv, NoStray
      <3>9. LoopOwned'
        BY <2>1, <3>1, <3>3, <3>4, CallGoto, Owners DEF LoopInv, LoopOwned
      <3>10. \A v \in Calls : call[v].pc = "draining" => call[v].at # i
        BY <3>2 DEF LoopInv, CallLoops
      <3>11. CallLoops'
        BY <2>1, <3>1, <3>3, <3>4, <3>10, CallGoto, Served DEF LoopInv, CallLoops
      <3> QED BY <3>7, <3>8, <3>9, <3>11 DEF LoopInv
    <2> QED BY <2>2, <2>3
  <1>7. ASSUME NEW i \in Instances, ReadFile(i) \/ WriteVariants(i) \/ StubFails(i) \/ MarkFailed(i)
        PROVE  LoopInv'
    <2>1. /\ UNCHANGED <<call, queue, processing>> /\ worker[i].pc \in AtWork
          /\ worker'[i].pc \in AtWork /\ worker'[i].owner = worker[i].owner
          /\ \A k \in Instances : k # i => worker'[k] = worker[k]
      BY <1>7 DEF ReadFile, WriteVariants, StubFails, MarkFailed, TypeInv, TypeOK, WorkerRecord
    <2>2. FlagUp'
      BY <2>1 DEF LoopInv, FlagUp
    <2>3. NoStray' /\ LoopOwned' /\ CallLoops'
      BY <2>1, Served DEF LoopInv, NoStray, LoopOwned, CallLoops
    <2> QED BY <2>2, <2>3 DEF LoopInv
  <1>8. ASSUME NEW i \in Instances, NextJob(i) PROVE LoopInv'
    <2> DEFINE u == worker[i].owner
    <2>1. worker[i].pc = "next" /\ u \in Calls
      BY <1>8, Owners DEF NextJob
    <2>2. call[u].pc = "draining" /\ call[u].at = i
      BY <2>1 DEF LoopInv, LoopOwned
    <2>3. CASE queue[i] = <<>>
      <3>1. /\ processing' = [processing EXCEPT ![i] = FALSE]
            /\ worker' = [worker EXCEPT ![i] = Idle]
            /\ UNCHANGED queue /\ Goto(u, "finish")
        BY <1>8, <2>3 DEF NextJob
      <3>2. \A k \in Instances : worker'[k] = IF k = i THEN Idle ELSE worker[k]
        BY <3>1 DEF TypeInv, TypeOK
      <3>3. \A k \in Instances : k # i => processing'[k] = processing[k]
        BY <3>1 DEF TypeInv, TypeOK
      <3>4. ~processing'[i]
        BY <3>1 DEF TypeInv, TypeOK
      <3>5. FlagUp'
        BY <3>2, <3>3, <3>4, IdleType DEF LoopInv, FlagUp
      <3>6. NoStray'
        BY <2>3, <3>1, <3>2 DEF LoopInv, NoStray
      <3>7. \A k \in Instances : worker[k].pc \in AtWork /\ k # i => worker[k].owner # u
        BY <2>2 DEF LoopInv, LoopOwned
      <3>8. \A v \in Calls : call[v].pc = "draining" /\ call[v].at = i => v = u
        BY DEF LoopInv, CallLoops
      <3> HIDE DEF u
      <3>9. LoopOwned'
        BY <2>1, <3>1, <3>2, <3>7, IdleType, CallGoto, Owners DEF LoopInv, LoopOwned
      <3>10. CallLoops'
        BY <2>1, <3>1, <3>2, <3>8, CallGoto, Served DEF LoopInv, CallLoops
      <3> QED BY <3>5, <3>6, <3>9, <3>10 DEF LoopInv
    <2>4. CASE queue[i] # <<>>
      <3>1. /\ UNCHANGED <<processing, call>>
            /\ worker' = [worker EXCEPT ![i] = Take(queue[i], u)]
            /\ queue' = [queue EXCEPT ![i] = Tail(@)]
        BY <1>8, <2>4 DEF NextJob
      <3>2. Take(queue[i], u).pc = "read" /\ Take(queue[i], u).owner = u
        BY DEF Take, Idle
      <3>3. \A k \in Instances : worker'[k] = IF k = i THEN Take(queue[i], u) ELSE worker[k]
        BY <3>1 DEF TypeInv, TypeOK
      <3>4. \A k \in Instances : k # i => queue'[k] = queue[k]
        BY <3>1 DEF TypeInv, TypeOK
      <3>5. FlagUp'
        BY <2>1, <3>1, <3>2, <3>3 DEF LoopInv, FlagUp
      <3>6. NoStray'
        BY <2>1, <3>2, <3>3, <3>4 DEF LoopInv, NoStray
      <3>7. LoopOwned' /\ CallLoops'
        BY <2>1, <2>2, <3>1, <3>2, <3>3, Served DEF LoopInv, LoopOwned, CallLoops
      <3> QED BY <3>5, <3>6, <3>7 DEF LoopInv
    <2> QED BY <2>3, <2>4
  <1>9. ASSUME NEW i \in Instances, WorkerDies(i) PROVE LoopInv'
    <2> DEFINE u == worker[i].owner
    <2>1. worker[i].pc \in AtWork /\ u \in Calls
      BY <1>9, Owners DEF WorkerDies
    <2>2. call[u].pc = "draining" /\ call[u].at = i
      BY <2>1 DEF LoopInv, LoopOwned
    <2>3. UNCHANGED <<queue, processing>> /\ worker' = [worker EXCEPT ![i].pc = "dead"]
          /\ Goto(u, "failed")
      BY <1>9 DEF WorkerDies
    <2>4. /\ \A k \in Instances : k # i => worker'[k] = worker[k]
          /\ worker'[i].pc = "dead"
      BY <2>3 DEF TypeInv, TypeOK, WorkerRecord
    <2>5. FlagUp'
      BY <2>1, <2>3, <2>4 DEF LoopInv, FlagUp
    <2>6. NoStray'
      BY <2>3, <2>4 DEF LoopInv, NoStray
    <2>7. \A k \in Instances : worker[k].pc \in AtWork /\ k # i => worker[k].owner # u
      BY <2>2 DEF LoopInv, LoopOwned
    <2>8. \A v \in Calls : call[v].pc = "draining" /\ call[v].at = i => v = u
      BY DEF LoopInv, CallLoops
    <2> HIDE DEF u
    <2>9. LoopOwned'
      BY <2>1, <2>3, <2>4, <2>7, CallGoto, Owners DEF LoopInv, LoopOwned
    <2>10. CallLoops'
      BY <2>1, <2>3, <2>4, <2>8, CallGoto, Served DEF LoopInv, CallLoops
    <2> QED BY <2>5, <2>6, <2>9, <2>10 DEF LoopInv
  <1>10. ASSUME NEW i \in Instances, Crash(i) PROVE LoopInv'
    <2>1. /\ queue' = [queue EXCEPT ![i] = <<>>]
          /\ processing' = [processing EXCEPT ![i] = FALSE]
          /\ worker' = [worker EXCEPT ![i] = Idle]
      BY <1>10 DEF Crash
    <2>2. \A v \in Calls : /\ call'[v].at = call[v].at
                           /\ call'[v].pc = "draining" => call[v].pc = "draining" /\ call[v].at # i
                           /\ call[v].pc = "draining" /\ call[v].at # i => call'[v].pc = "draining"
      BY <1>10 DEF Crash, Open, OpenPc, TypeInv, TypeOK, CallRecord
    <2>3. \A k \in Instances : worker'[k] = IF k = i THEN Idle ELSE worker[k]
      BY <2>1 DEF TypeInv, TypeOK
    <2>4. \A k \in Instances : k # i => processing'[k] = processing[k]
      BY <2>1 DEF TypeInv, TypeOK
    <2>5. ~processing'[i]
      BY <2>1 DEF TypeInv, TypeOK
    <2>6. FlagUp'
      BY <2>3, <2>4, <2>5, IdleType DEF LoopInv, FlagUp
    <2>7. NoStray'
      BY <2>1, <2>3 DEF LoopInv, NoStray, TypeInv, TypeOK
    <2>8. LoopOwned' /\ CallLoops'
      BY <2>2, <2>3, IdleType, Served, Owners DEF LoopInv, LoopOwned, CallLoops
    <2> QED BY <2>6, <2>7, <2>8 DEF LoopInv
  <1>11. CASE UNCHANGED vars
    BY <1>11, LoopFrame DEF vars, loops
  <1> QED BY <1>2, <1>3, <1>4, <1>5, <1>6, <1>7, <1>8, <1>9, <1>10, <1>11 DEF Next, Work

(***************************************************************************)
(* DeclaredIntegrity.  The checksum test happens once, when a call reads   *)
(* the row; the invariant carries its outcome to the writes that follow:   *)
(* whoever is past the test, or holds a snapshot, holds the declared       *)
(* content.  Nothing else may hold a file before its row exists.           *)
(***************************************************************************)
Known(f) == file[f].status # "ABSENT"

OnlyKnown ==
    /\ \A f \in Files : ~Known(f) => /\ declared[f] = NoContent
                                    /\ object[f].of = {}
                                    /\ variant[f] = NoContent
    /\ \A u \in Calls : Used(u) => Known(call[u].file)
    /\ \A i \in Instances : worker[i].pc = "stub" => Known(worker[i].file)

HoldsDeclared ==
    /\ \A u \in Calls : call[u].pc \in Transfer =>
        declared[call[u].file] \in {NoContent, call[u].body}
    /\ \A u \in Calls : call[u].pc = "createJob" /\ call[u].kind # "REQUEST" =>
        declared[call[u].file] = NoContent
    /\ \A i \in Instances : worker[i].pc = "stub" =>
        declared[worker[i].file] \in {NoContent, worker[i].seen}

IntegrityInv == OnlyKnown /\ HoldsDeclared /\ DeclaredIntegrity

LEMMA InitIntegrity == Init => IntegrityInv
  BY UnusedType, IdleType
     DEF Init, NoObject, IntegrityInv, OnlyKnown, HoldsDeclared, DeclaredIntegrity, Known, Used, Transfer

\* A call that moves on, without changing what rows declare, keeps the invariant's part
\* about calls if it was past the test already or does not get past it.
LEMMA GotoIntegrity ==
  ASSUME TypeInv, IntegrityInv, NEW u \in Calls, Used(u), NEW pc \in CallPc,
         Goto(u, pc), UNCHANGED declared,
         \A f \in Files : Known(f)' <=> Known(f),
         pc # "createJob",
         pc \in Transfer => call[u].pc \in Transfer
                             \/ declared[call[u].file] = NoContent
  PROVE  /\ \A v \in Calls : Used(v)' => Known(call[v].file)'
         /\ \A v \in Calls : call'[v].pc \in Transfer =>
              declared'[call'[v].file] \in {NoContent, call'[v].body}
         /\ \A v \in Calls : call'[v].pc = "createJob" /\ call'[v].kind # "REQUEST" =>
              declared'[call'[v].file] = NoContent
  <1>1. call' = [call EXCEPT ![u].pc = pc]
    BY DEF Goto
  <1>2. ASSUME NEW v \in Calls
        PROVE  /\ call'[v].file = call[v].file /\ call'[v].body = call[v].body
               /\ call'[v].kind = call[v].kind
               /\ call'[v].pc = IF v = u THEN pc ELSE call[v].pc
    BY <1>1 DEF TypeInv, TypeOK, CallRecord
  <1>3. \A v \in Calls : Used(v)' => Known(call[v].file)'
    BY <1>2 DEF IntegrityInv, OnlyKnown, TypeInv, Bound, CallBound, Used
  <1>4. \A v \in Calls : call'[v].pc \in Transfer =>
              declared'[call'[v].file] \in {NoContent, call'[v].body}
    BY <1>2 DEF IntegrityInv, HoldsDeclared
  <1>5. \A v \in Calls : call'[v].pc = "createJob" /\ call'[v].kind # "REQUEST" =>
              declared'[call'[v].file] = NoContent
    BY <1>2 DEF IntegrityInv, HoldsDeclared
  <1> QED BY <1>3, <1>4, <1>5

LEMMA IntegrityStep == TypeInv /\ LoopInv /\ IntegrityInv /\ [Next]_vars => IntegrityInv'
  <1> SUFFICES ASSUME TypeInv, LoopInv, IntegrityInv, [Next]_vars PROVE IntegrityInv'
    OBVIOUS
  <1> USE DEF rows, loops, OpenPc, CallPc, FileStatus
  <1>1. ASSUME NEW u \in Calls, NEW i \in Instances, NEW f \in Files, NEW kind \in CallKind,
               NEW sum \in Checksum, NEW body \in Checksum, CreateFile(u, i, f, kind, sum, body),
               kind # "REQUEST" => sum = NoContent
        PROVE  IntegrityInv'
    <2> DEFINE c == [Unused EXCEPT !.pc = "createJob", !.kind = kind, !.at = i,
                                   !.file = f, !.body = body]
    <2>1. c \in CallRecord /\ c.pc = "createJob" /\ c.file = f /\ c.kind = kind
      BY UnusedType DEF CallRecord
    <2>2. /\ call' = [call EXCEPT ![u] = c] /\ ~Used(u) /\ ~Known(f)
          /\ file' = [file EXCEPT ![f] = [status |-> "PENDING_UPLOAD", checksum |-> sum]]
          /\ declared' = [declared EXCEPT ![f] = sum]
          /\ UNCHANGED <<job, variant, object, loops, crashes>>
      BY <1>1 DEF CreateFile, Used, Known
    <2>3. \A g \in Files : IF g = f THEN Known(g)' /\ declared'[g] = sum /\ file'[g].checksum = sum
                           ELSE (Known(g)' <=> Known(g)) /\ declared'[g] = declared[g]
                                /\ file'[g] = file[g]
      BY <2>2 DEF Known, TypeInv, TypeOK
    <2>4. \A v \in Calls : v # u => call'[v] = call[v]
      BY <2>2 DEF TypeInv, TypeOK
    <2>5. call'[u] = c
      BY <2>2 DEF TypeInv, TypeOK
    <2> HIDE DEF c
    <2>6. OnlyKnown'
      BY <2>1, <2>2, <2>3, <2>4, <2>5
         DEF IntegrityInv, OnlyKnown, Known, Used, TypeInv, Bound, CallBound, WorkerBound
    <2>7. \A v \in Calls : v # u /\ Used(v) => call[v].file # f
      BY <2>2 DEF IntegrityInv, OnlyKnown
    <2>8. \A v \in Calls : v # u /\ Used(v) => declared'[call'[v].file] = declared[call[v].file]
      BY <2>3, <2>4, <2>7 DEF TypeInv, Bound, CallBound
    <2>9. \A k \in Instances : worker[k].pc = "stub" =>
             declared'[worker'[k].file] = declared[worker[k].file]
      BY <2>2, <2>3 DEF IntegrityInv, OnlyKnown, TypeInv, Bound, WorkerBound
    <2>10. HoldsDeclared'
      BY <1>1, <2>1, <2>2, <2>3, <2>4, <2>5, <2>8, <2>9
         DEF IntegrityInv, HoldsDeclared, Transfer, Used
    <2>11. DeclaredIntegrity'
      BY <2>2, <2>3 DEF IntegrityInv, OnlyKnown, DeclaredIntegrity
    <2> QED BY <2>6, <2>10, <2>11 DEF IntegrityInv
  <1>2. ASSUME NEW u \in Calls, CreateJob(u) PROVE IntegrityInv'
    <2> DEFINE pc == IF call[u].kind = "REQUEST" THEN "done" ELSE "put"
    <2>1. Goto(u, pc)
      BY <1>2 DEF CreateJob
    <2>2. call[u].pc = "createJob" /\ UNCHANGED <<file, variant, object, declared, loops, crashes>>
      BY <1>2 DEF CreateJob
    <2>5. call[u].kind # "REQUEST" => declared[call[u].file] = NoContent
      BY <2>2 DEF IntegrityInv, HoldsDeclared
    <2>3. pc \in Transfer => declared[call[u].file] = NoContent
      BY <2>5 DEF Transfer
    <2>6. pc \in CallPc /\ pc # "createJob"
      OBVIOUS
    <2> HIDE DEF pc
    <2>4. /\ \A v \in Calls : Used(v)' => Known(call[v].file)'
          /\ HoldsDeclared'
      BY <2>1, <2>2, <2>3, <2>6, GotoIntegrity DEF IntegrityInv, HoldsDeclared, Known, Used
    <2> QED BY <2>2, <2>4 DEF IntegrityInv, OnlyKnown, DeclaredIntegrity, Known
  <1>3. ASSUME NEW u \in Calls, NEW i \in Instances, NEW f \in Files, NEW body \in Contents,
               Receive(u, i, f, body)
        PROVE  IntegrityInv'
    <2> DEFINE right == file[f].checksum \in {NoContent, body}
               c == [Unused EXCEPT !.pc = IF right THEN "put" ELSE "flagFile",
                                   !.kind = "PUT", !.at = i, !.file = f,
                                   !.body = body, !.seen = file[f].checksum]
    <2>1. /\ c.file = f /\ c.body = body /\ c.pc \in {"put", "flagFile"}
          /\ c.pc = "put" => right
      BY UnusedType DEF CallRecord
    <2>2. call' = [call EXCEPT ![u] = c] /\ Known(f) /\ UNCHANGED <<rows, loops, crashes>>
      BY <1>3 DEF Receive, Known
    <2>3. call'[u] = c /\ \A v \in Calls : v # u => call'[v] = call[v]
      BY <2>2 DEF TypeInv, TypeOK
    <2>4. c.pc = "put" => declared[f] \in {NoContent, body}
      BY <2>1 DEF IntegrityInv, DeclaredIntegrity
    <2> HIDE DEF c
    <2> QED BY <2>1, <2>2, <2>3, <2>4
            DEF IntegrityInv, OnlyKnown, HoldsDeclared, DeclaredIntegrity, Known, Used, Transfer
  <1>4. ASSUME NEW u \in Calls, FlagFile(u) PROVE IntegrityInv'
    <2>1. Used(u) /\ Goto(u, "flagJob") /\ UNCHANGED <<job, variant, object, declared, loops, crashes>>
          /\ file' = [file EXCEPT ![call[u].file].status = "CHECKSUM_FAILED"]
      BY <1>4 DEF FlagFile, Used
    <2>2. \A f \in Files : /\ file'[f].checksum = file[f].checksum
                           /\ Known(f)' <=> Known(f)
      BY <2>1 DEF Known, IntegrityInv, OnlyKnown, TypeInv, TypeOK
    <2> QED BY <2>1, <2>2, GotoIntegrity
            DEF IntegrityInv, OnlyKnown, HoldsDeclared, DeclaredIntegrity, Known, Used, Transfer,
                TypeInv, Bound, WorkerBound
  <1>5. ASSUME NEW u \in Calls, FlagJob(u) PROVE IntegrityInv'
    <2>1. Used(u) /\ Goto(u, "failed") /\ UNCHANGED <<file, variant, object, declared, loops, crashes>>
      BY <1>5 DEF FlagJob, Used
    <2>2. "failed" \in Transfer => call[u].pc \in Transfer
      BY <1>5 DEF FlagJob, Transfer
    <2> QED BY <2>1, <2>2, GotoIntegrity
            DEF IntegrityInv, OnlyKnown, HoldsDeclared, DeclaredIntegrity, Known, Used
  <1>6. ASSUME NEW u \in Calls, Upload(u) PROVE IntegrityInv'
    <2>1. Used(u) /\ UNCHANGED <<file, variant, declared, loops, crashes>> /\ call[u].pc \in Transfer
      BY <1>6, UploadStep DEF Transfer
    <2>2. PICK pc \in {"fill", "row", "failed"} : Goto(u, pc)
      BY <1>6, UploadStep
    <2>3. /\ \A v \in Calls : Used(v)' => Known(call[v].file)'
          /\ HoldsDeclared'
      BY <2>1, <2>2, GotoIntegrity DEF IntegrityInv, HoldsDeclared, Known
    <2>4. Known(call[u].file)
      BY <2>1 DEF IntegrityInv, OnlyKnown
    <2>5. OnlyKnown'
      BY <1>6, <2>1, <2>3, <2>4, UploadStep DEF IntegrityInv, OnlyKnown, Known
    <2>6. ASSUME NEW f \in Files, declared[f] # NoContent PROVE object'[f].of \subseteq {declared[f]}
      <3>1. CASE f = call[u].file
        <4>1. \A v \in Calls : v = u \/ call[v].pc = "fill" =>
                declared[call[v].file] \in {NoContent, call[v].body}
          BY <2>1 DEF IntegrityInv, HoldsDeclared, Transfer
        <4> QED BY <1>6, <2>6, <3>1, <4>1, UploadOf DEF IntegrityInv, DeclaredIntegrity
      <3>2. CASE f # call[u].file
        BY <1>6, <2>6, <3>2, UploadStep DEF IntegrityInv, DeclaredIntegrity
      <3> QED BY <3>1, <3>2
    <2>7. DeclaredIntegrity'
      BY <2>1, <2>6 DEF IntegrityInv, DeclaredIntegrity
    <2> QED BY <2>3, <2>5, <2>7 DEF IntegrityInv
  <1>7. ASSUME NEW u \in Calls, NEW body, body = call[u].body,
               call[u].pc \in Transfer, NEW pc \in Transfer, Goto(u, pc),
               UNCHANGED <<variant, object, declared, loops, crashes>>,
               \A f \in Files : /\ file'[f].checksum \in {file[f].checksum,
                                                         IF f = call[u].file THEN body
                                                                            ELSE file[f].checksum}
                                /\ Known(f)' <=> Known(f)
        PROVE  IntegrityInv'
    <2>1. Used(u)
      BY <1>7 DEF Used, Transfer
    <2>2. /\ \A v \in Calls : Used(v)' => Known(call[v].file)'
          /\ HoldsDeclared'
      BY <1>7, <2>1, GotoIntegrity DEF IntegrityInv, HoldsDeclared, Transfer
    <2>3. declared[call[u].file] \in {NoContent, call[u].body}
      BY <1>7 DEF IntegrityInv, HoldsDeclared
    <2>4. OnlyKnown'
      BY <1>7, <2>2 DEF IntegrityInv, OnlyKnown, TypeInv, Bound, WorkerBound
    <2>5. DeclaredIntegrity'
      BY <1>7, <2>3 DEF IntegrityInv, DeclaredIntegrity
    <2> QED BY <2>2, <2>4, <2>5 DEF IntegrityInv
  <1>8. ASSUME NEW u \in Calls, UpdateRow(u) PROVE IntegrityInv'
    <2>1. call[u].file \in Files /\ Known(call[u].file)
      BY <1>8 DEF UpdateRow, Used, TypeInv, Bound, CallBound, IntegrityInv, OnlyKnown
    <2>2. \A f \in Files : file'[f] = IF f = call[u].file
                             THEN [status |-> "STORED", checksum |-> call[u].body] ELSE file[f]
      BY <1>8 DEF UpdateRow, TypeInv, TypeOK
    <2>3. \A f \in Files : Known(f)' <=> Known(f)
      BY <2>1, <2>2 DEF Known
    <2> QED BY <1>7, <1>8, <2>2, <2>3 DEF UpdateRow, Transfer
  <1>9. ASSUME NEW u \in Calls, Finish(u) PROVE IntegrityInv'
    <2>1. \A f \in Files : /\ file'[f].checksum \in {file[f].checksum,
                                 IF f = call[u].file THEN call[u].body ELSE file[f].checksum}
                           /\ file'[f].status = file[f].status
      BY <1>9 DEF Finish, TypeInv, TypeOK
    <2>2. \A f \in Files : Known(f)' <=> Known(f)
      BY <2>1 DEF Known
    <2> QED BY <1>7, <1>9, <2>1, <2>2 DEF Finish, Transfer
  <1>10. ASSUME NEW u \in Calls, MarkRunning(u) PROVE IntegrityInv'
    <2>1. Used(u) /\ Goto(u, "enqueue") /\ UNCHANGED <<file, variant, object, declared, loops, crashes>>
      BY <1>10 DEF MarkRunning, Used
    <2>2. "enqueue" \in Transfer => call[u].pc \in Transfer
      BY <1>10 DEF MarkRunning, Transfer
    <2> QED BY <2>1, <2>2, GotoIntegrity
            DEF IntegrityInv, OnlyKnown, HoldsDeclared, DeclaredIntegrity, Known, Used
  <1>11. ASSUME NEW u \in Calls, Enqueue(u) PROVE IntegrityInv'
    <2>1. Used(u) /\ UNCHANGED <<rows, crashes>> /\ call[u].pc \in Transfer
      BY <1>11 DEF Enqueue, Used, Transfer
    <2>2. PICK pc \in {"finish", "draining"} : Goto(u, pc)
      BY <1>11 DEF Enqueue
    <2>3. /\ \A v \in Calls : Used(v)' => Known(call[v].file)'
          /\ \A v \in Calls : call'[v].pc \in Transfer =>
               declared'[call'[v].file] \in {NoContent, call'[v].body}
          /\ \A v \in Calls : call'[v].pc = "createJob" /\ call'[v].kind # "REQUEST" =>
               declared'[call'[v].file] = NoContent
      BY <2>1, <2>2, GotoIntegrity DEF Known
    <2>4. \A i \in Instances : worker'[i].pc = "stub" => worker'[i] = worker[i]
      <3>1. PICK q : \/ UNCHANGED worker
                     \/ worker' = [worker EXCEPT ![call[u].at] = Take(q, u)]
        BY <1>11 DEF Enqueue
      <3>2. Take(q, u).pc = "read"
        BY DEF Take, Idle
      <3> QED BY <3>1, <3>2 DEF TypeInv, TypeOK
    <2> QED BY <2>1, <2>3, <2>4
            DEF IntegrityInv, OnlyKnown, HoldsDeclared, DeclaredIntegrity, Known
  <1>12. ASSUME NEW u \in Calls, Reply(u) PROVE IntegrityInv'
    <2>1. /\ UNCHANGED <<rows, loops, crashes>> /\ Used(u)
          /\ \A v \in Calls : /\ call'[v].file = call[v].file /\ call'[v].body = call[v].body
                               /\ call'[v].kind = call[v].kind
                               /\ call'[v].pc = IF v = u THEN "done" ELSE call[v].pc
      BY <1>12 DEF Reply, Used, TypeInv, TypeOK, CallRecord
    <2> QED BY <2>1
            DEF IntegrityInv, OnlyKnown, HoldsDeclared, DeclaredIntegrity, Known, Used, Transfer
  <1>13. ASSUME NEW u \in Calls, RequestFails(u) PROVE IntegrityInv'
    <2>1. Used(u) /\ Goto(u, "failed") /\ UNCHANGED <<file, variant, object, declared, loops, crashes>>
      BY <1>13 DEF RequestFails, Used
    <2>2. "failed" \in Transfer => call[u].pc \in Transfer
      BY <1>13 DEF RequestFails, Transfer
    <2> QED BY <2>1, <2>2, GotoIntegrity
            DEF IntegrityInv, OnlyKnown, HoldsDeclared, DeclaredIntegrity, Known, Used
  <1>14. ASSUME NEW i \in Instances, Work(i) PROVE IntegrityInv'
    <2>1. CASE ReadFile(i)
      <3>1. /\ UNCHANGED <<rows, call>> /\ worker[i].file \in Files
            /\ \A k \in Instances : k # i => worker'[k] = worker[k]
            /\ worker'[i].file = worker[i].file
            /\ worker'[i].seen = file[worker[i].file].checksum
            /\ worker'[i].pc = "stub" => Known(worker[i].file)
        BY <2>1 DEF ReadFile, Known, TypeInv, TypeOK, WorkerRecord, Bound, WorkerBound
      <3> QED BY <3>1 DEF IntegrityInv, OnlyKnown, HoldsDeclared, DeclaredIntegrity, Known, Used
    <2>2. CASE WriteVariants(i)
      <3>1. /\ UNCHANGED <<file, object, declared, call>> /\ worker[i].pc = "stub"
            /\ \A k \in Instances : worker'[k].pc = "stub" => worker'[k] = worker[k]
            /\ \A f \in Files : variant'[f] = IF f = worker[i].file THEN worker[i].seen
                                                                   ELSE variant[f]
        BY <2>2 DEF WriteVariants, TypeInv, TypeOK, WorkerRecord
      <3>2. Known(worker[i].file) /\ declared[worker[i].file] \in {NoContent, worker[i].seen}
        BY <3>1 DEF IntegrityInv, OnlyKnown, HoldsDeclared
      <3> QED BY <3>1, <3>2
              DEF IntegrityInv, OnlyKnown, HoldsDeclared, DeclaredIntegrity, Known, Used
    <2>3. CASE StubFails(i) \/ MarkFailed(i)
      <3>1. /\ UNCHANGED <<file, variant, object, declared, call>>
            /\ \A k \in Instances : worker'[k].pc = "stub" => worker'[k] = worker[k]
        BY <2>3 DEF StubFails, MarkFailed, TypeInv, TypeOK, WorkerRecord
      <3> QED BY <3>1 DEF IntegrityInv, OnlyKnown, HoldsDeclared, DeclaredIntegrity, Known, Used
    <2>4. CASE NextJob(i) \/ WorkerDies(i)
      <3> DEFINE u == worker[i].owner
      <3>4. UNCHANGED rows /\ worker[i].pc \in AtWork
        BY <2>4 DEF NextJob, WorkerDies, AtWork
      <3>5. u \in Calls /\ call[u].pc = "draining"
        BY <3>4, Owners DEF LoopInv, LoopOwned, AtWork
      <3>6. \A k \in Instances : worker'[k].pc = "stub" => worker'[k] = worker[k]
        <4>1. CASE WorkerDies(i)
          BY <4>1 DEF WorkerDies, TypeInv, TypeOK, WorkerRecord
        <4>2. PICK w : w \in {Idle, Take(queue[i], u)}
                       /\ (NextJob(i) => worker' = [worker EXCEPT ![i] = w])
          BY DEF NextJob
        <4>3. Idle.pc # "stub" /\ Take(queue[i], u).pc # "stub"
          BY DEF Take, Idle
        <4> QED BY <2>4, <4>1, <4>2, <4>3 DEF TypeInv, TypeOK
      <3>1. /\ UNCHANGED rows /\ u \in Calls /\ Used(u) /\ call[u].pc \in Transfer
            /\ \A k \in Instances : worker'[k].pc = "stub" => worker'[k] = worker[k]
        BY <3>4, <3>5, <3>6 DEF Transfer, Used
      <3>2. CASE UNCHANGED call
        BY <3>1, <3>2 DEF IntegrityInv, OnlyKnown, HoldsDeclared, DeclaredIntegrity, Known, Used
      <3>3. ASSUME NEW pc \in {"finish", "failed"}, Goto(u, pc) PROVE IntegrityInv'
        <4>1. /\ \A v \in Calls : Used(v)' => Known(call[v].file)'
              /\ \A v \in Calls : call'[v].pc \in Transfer =>
                   declared'[call'[v].file] \in {NoContent, call'[v].body}
              /\ \A v \in Calls : call'[v].pc = "createJob" /\ call'[v].kind # "REQUEST" =>
                   declared'[call'[v].file] = NoContent
          BY <3>1, <3>3, GotoIntegrity DEF Known
        <4> QED BY <3>1, <4>1
                DEF IntegrityInv, OnlyKnown, HoldsDeclared, DeclaredIntegrity, Known
      <3> QED BY <2>4, <3>2, <3>3 DEF NextJob, WorkerDies
    <2> QED BY <1>14, <2>1, <2>2, <2>3, <2>4 DEF Work
  <1>15. ASSUME NEW i \in Instances, Crash(i) PROVE IntegrityInv'
    <2>1. /\ UNCHANGED rows
          /\ \A k \in Instances : worker'[k].pc = "stub" => worker'[k] = worker[k]
      BY <1>15, IdleType DEF Crash, TypeInv, TypeOK
    <2>2. \A v \in Calls : \/ call'[v] = call[v]
                           \/ /\ call'[v].file = call[v].file /\ Used(v)
                              /\ call'[v].pc = "lost"
      BY <1>15 DEF Crash, Open, Used, TypeInv, TypeOK, CallRecord
    <2> QED BY <2>1, <2>2
            DEF IntegrityInv, OnlyKnown, HoldsDeclared, DeclaredIntegrity, Known, Used, Transfer
  <1>16. CASE UNCHANGED vars
    BY <1>16 DEF vars, IntegrityInv, OnlyKnown, HoldsDeclared, DeclaredIntegrity, Known, Used
  <1>17. ASSUME NEW u \in Calls, Arrive(u) PROVE IntegrityInv'
    BY <1>1, <1>3, <1>17 DEF Arrive, RequestUpload, IngestFile, CallKind, Checksum
  <1> QED BY <1>2, <1>4, <1>5, <1>6, <1>8, <1>9, <1>10, <1>11, <1>12, <1>13, <1>14, <1>15,
             <1>16, <1>17 DEF Next, Advance, Upload

\* Whatever checksum a file was registered with is the only content it ever holds, for any
\* number of calls, files, instances, faults and crashes.
THEOREM DeclaredContent == SafeSpec => []DeclaredIntegrity
  <1> DEFINE Inv == TypeInv /\ LoopInv /\ IntegrityInv
  <1>1. Init => Inv
    BY InitTypeInv, InitLoop, InitIntegrity
  <1>2. Inv /\ [Next]_vars => Inv'
    BY TypeInvStep, LoopStep, IntegrityStep
  <1>3. Inv => DeclaredIntegrity
    BY DEF IntegrityInv
  <1> QED BY <1>1, <1>2, <1>3, PTL DEF SafeSpec

(***************************************************************************)
(* The queue implements its promise: the loops are the servers of          *)
(* WorkQueue, a loop's file what is being served.  Only the steps that     *)
(* push, shift or forget are visible; a dead loop never shifts again.      *)
(***************************************************************************)
LEMMA PromiseInit == Init => Promise!Init
  BY IdleType DEF Init, Promise!Init

LEMMA PromiseStep == TypeInv /\ LoopInv /\ [Next]_vars => [Promise!Next]_Promise!vars
  <1> SUFFICES ASSUME TypeInv, LoopInv, [Next]_vars PROVE [Promise!Next]_Promise!vars
    OBVIOUS
  <1> DEFINE cur(i) == worker[i].file
  <1>1. \A i \in Instances : worker[i].file = NoFile <=> worker[i].pc = "idle"
    BY IngestionAssumption DEF TypeInv, Bound, WorkerBound
  <1>2. ASSUME UNCHANGED queue, \A i \in Instances : worker'[i].file = worker[i].file
        PROVE  UNCHANGED Promise!vars
    BY <1>2 DEF Promise!vars
  <1>3. ASSUME NEW u \in Calls, Enqueue(u) PROVE Promise!Next
    <2>1. PICK i \in Instances, f \in Files : i = call[u].at /\ f = call[u].file
      BY <1>3, Served DEF Enqueue, TypeInv, Bound, CallBound, Used
    <2> DEFINE q == Append(queue[i], f)
    <2>2. CASE processing[i]
      <3>1. worker[i].file # NoFile
        BY <1>1, <2>1, <2>2 DEF LoopInv, FlagUp
      <3>2. queue' = [queue EXCEPT ![i] = Append(@, f)] /\ UNCHANGED worker
        BY <1>3, <2>1, <2>2 DEF Enqueue
      <3>3. Promise!Submit(i, f)
        BY <2>1, <3>1, <3>2 DEF Promise!Submit
      <3> QED BY <2>1, <3>3 DEF Promise!Next
    <2>3. CASE ~processing[i]
      <3>1. worker[i].file = NoFile /\ queue[i] = <<>>
        BY <1>1, <2>1, <2>3 DEF LoopInv, FlagUp, NoStray
      <3>2. Head(q) = f /\ Tail(q) = <<>>
        BY <2>1, <3>1
      <3>3. queue' = [queue EXCEPT ![i] = Tail(q)] /\ worker' = [worker EXCEPT ![i] = Take(q, u)]
        BY <1>3, <2>1, <2>3 DEF Enqueue
      <3>4. UNCHANGED queue
        BY <2>1, <3>1, <3>2, <3>3 DEF TypeInv, TypeOK
      <3>5. Take(q, u).file = f
        BY <3>2 DEF Take, Idle
      <3> HIDE DEF q
      <3>6. \A k \in Instances : worker'[k].file = IF k = i THEN f ELSE worker[k].file
        BY <3>3, <3>5 DEF TypeInv, TypeOK
      <3>7. Promise!Submit(i, f)
        BY <2>1, <3>1, <3>4, <3>6 DEF Promise!Submit
      <3> QED BY <2>1, <3>7 DEF Promise!Next
    <2> QED BY <2>2, <2>3
  <1>4. ASSUME NEW i \in Instances, NextJob(i) PROVE Promise!Next
    <2> DEFINE u == worker[i].owner
    <2>1. worker[i].file # NoFile /\ queue[i] \in Seq(Files)
      BY <1>1, <1>4 DEF NextJob, TypeInv, TypeOK
    <2>2. CASE queue[i] = <<>>
      <3>1. worker' = [worker EXCEPT ![i] = Idle] /\ UNCHANGED queue
        BY <1>4, <2>2 DEF NextJob
      <3>2. \A k \in Instances : worker'[k].file = IF k = i THEN NoFile ELSE worker[k].file
        BY <3>1, IdleType DEF TypeInv, TypeOK
      <3>3. Promise!Serve(i)
        BY <2>1, <2>2, <3>1, <3>2 DEF Promise!Serve
      <3> QED BY <3>3 DEF Promise!Next
    <2>3. CASE queue[i] # <<>>
      <3>1. /\ worker' = [worker EXCEPT ![i] = Take(queue[i], u)]
            /\ queue' = [queue EXCEPT ![i] = Tail(@)]
        BY <1>4, <2>3 DEF NextJob
      <3>2. Take(queue[i], u).file = Head(queue[i])
        BY DEF Take, Idle
      <3>3. \A k \in Instances : worker'[k].file = IF k = i THEN Head(queue[i]) ELSE worker[k].file
        BY <3>1, <3>2 DEF TypeInv, TypeOK
      <3>4. Promise!Serve(i)
        BY <2>1, <2>3, <3>1, <3>3 DEF Promise!Serve
      <3> QED BY <3>4 DEF Promise!Next
    <2> QED BY <2>2, <2>3
  <1>5. ASSUME NEW i \in Instances, Crash(i) PROVE Promise!Next
    <2>1. worker' = [worker EXCEPT ![i] = Idle] /\ queue' = [queue EXCEPT ![i] = <<>>]
      BY <1>5 DEF Crash
    <2>2. \A k \in Instances : worker'[k].file = IF k = i THEN NoFile ELSE worker[k].file
      BY <2>1, IdleType DEF TypeInv, TypeOK
    <2>3. Promise!Restart(i)
      BY <2>1, <2>2 DEF Promise!Restart
    <2> QED BY <2>3 DEF Promise!Next
  <1>6. ASSUME NEW i \in Instances,
               ReadFile(i) \/ WriteVariants(i) \/ StubFails(i) \/ MarkFailed(i) \/ WorkerDies(i)
        PROVE  UNCHANGED Promise!vars
    <2>1. UNCHANGED queue
      BY <1>6 DEF ReadFile, WriteVariants, StubFails, MarkFailed, WorkerDies
    <2>2. PICK pc, seen : worker' = [worker EXCEPT ![i].pc = pc, ![i].seen = seen]
      <3>1. CASE ReadFile(i)
        BY <3>1 DEF ReadFile
      <3>2. CASE ~ReadFile(i)
        <4>1. PICK pc : worker' = [worker EXCEPT ![i].pc = pc]
          BY <1>6, <3>2 DEF WriteVariants, StubFails, MarkFailed, WorkerDies
        <4>2. worker' = [worker EXCEPT ![i].pc = pc, ![i].seen = worker[i].seen]
          BY <4>1 DEF TypeInv, TypeOK, WorkerRecord
        <4> QED BY <4>2
      <3> QED BY <3>1, <3>2
    <2>3. \A k \in Instances : worker'[k].file = worker[k].file
      BY <2>2 DEF TypeInv, TypeOK, WorkerRecord
    <2> QED BY <1>2, <2>1, <2>3
  <1>7. ASSUME NEW u \in Calls, Arrive(u) \/ (Advance(u) /\ ~Enqueue(u)) \/ PutUnanswered(u) \/ RequestFails(u)
        PROVE  UNCHANGED Promise!vars
    <2>1. UNCHANGED loops
      BY <1>7, UploadStep DEF Arrive, RequestUpload, IngestFile, CreateFile, Receive, Advance, Upload,
                  RequestFails, CreateJob, FlagFile, FlagJob, UpdateRow, MarkRunning, Finish, Reply
    <2> QED BY <1>2, <2>1 DEF loops
  <1>8. CASE UNCHANGED vars
    BY <1>2, <1>8 DEF vars, loops
  <1> QED BY <1>3, <1>4, <1>5, <1>6, <1>7, <1>8 DEF Next, Work

\* Flag, array and loop together serve every instance's files one at a time and in the
\* order they were submitted, faults and restarts included.
THEOREM QueueInOrder == SafeSpec => Promise!SafeSpec
  <1>1. TypeInv /\ LoopInv /\ [Next]_vars => (TypeInv /\ LoopInv)'
    BY TypeInvStep, LoopStep
  <1> QED BY InitTypeInv, InitLoop, <1>1, PromiseInit, PromiseStep, PTL
          DEF SafeSpec, Promise!SafeSpec

(***************************************************************************)
(* One drainer, where handleJob's statements outside its try do not throw. *)
(***************************************************************************)
Alive == \A i \in Instances : worker[i].pc # "dead"

LEMMA AliveStep ==
  ASSUME Faults \cap {"read", "mark"} = {}
  PROVE  TypeInv /\ Alive /\ [Next]_vars => Alive'
  <1> SUFFICES ASSUME TypeInv, Alive, [Next]_vars PROVE Alive'
    OBVIOUS
  <1>1. ASSUME NEW i \in Instances, Work(i) \/ Crash(i) PROVE Alive'
    <2>1. ~WorkerDies(i)
      BY DEF WorkerDies
    <2>2. PICK w : w.pc # "dead" /\ worker' = [worker EXCEPT ![i] = w]
      <3>1. CASE ReadFile(i) \/ WriteVariants(i) \/ StubFails(i) \/ MarkFailed(i)
        <4>1. \E w : w.pc # "dead" /\ w = worker'[i]
          BY <3>1 DEF ReadFile, WriteVariants, StubFails, MarkFailed, TypeInv, TypeOK, WorkerRecord
        <4>2. worker' = [worker EXCEPT ![i] = worker'[i]]
          BY <3>1 DEF ReadFile, WriteVariants, StubFails, MarkFailed, TypeInv, TypeOK
        <4> QED BY <4>1, <4>2
      <3>2. CASE NextJob(i) \/ Crash(i)
        <4>1. Idle.pc # "dead" /\ Take(queue[i], worker[i].owner).pc # "dead"
          BY DEF Idle, Take
        <4> QED BY <3>2, <4>1 DEF NextJob, Crash
      <3> QED BY <1>1, <2>1, <3>1, <3>2 DEF Work
    <2> QED BY <2>2 DEF Alive, TypeInv, TypeOK
  <1>2. ASSUME NEW u \in Calls, Enqueue(u) PROVE Alive'
    <2>1. PICK q : UNCHANGED worker \/ worker' = [worker EXCEPT ![call[u].at] = Take(q, u)]
      BY <1>2 DEF Enqueue
    <2>2. Take(q, u).pc # "dead"
      BY DEF Take, Idle
    <2> QED BY <2>1, <2>2 DEF Alive, TypeInv, TypeOK
  <1>3. ASSUME NEW u \in Calls, Arrive(u) \/ (Advance(u) /\ ~Enqueue(u)) \/ PutUnanswered(u) \/ RequestFails(u)
        PROVE  Alive'
    <2>1. UNCHANGED loops
      BY <1>3, UploadStep DEF Arrive, RequestUpload, IngestFile, CreateFile, Receive, Advance, Upload,
                  RequestFails, CreateJob, FlagFile, FlagJob, UpdateRow, MarkRunning, Finish, Reply
    <2> QED BY <2>1 DEF Alive, loops
  <1>4. CASE UNCHANGED vars
    BY <1>4 DEF Alive, vars, loops
  <1> QED BY <1>1, <1>2, <1>3, <1>4 DEF Next

LEMMA LoopMeansOneDrainer == TypeInv /\ LoopInv /\ Alive => OneDrainer
  <1> SUFFICES ASSUME TypeInv, LoopInv, Alive PROVE OneDrainer
    OBVIOUS
  <1>1. \A i \in Instances : worker[i].pc # "idle" => worker[i].pc \in AtWork
    BY DEF Alive, AtWork, TypeInv, TypeOK, WorkerRecord, WorkerPc
  <1>2. \A i \in Instances : worker[i].pc # "idle" =>
            /\ worker[i].pc # "dead" /\ worker[i].owner \in Calls
            /\ call[worker[i].owner].pc = "draining" /\ call[worker[i].owner].at = i
    BY <1>1, Owners DEF Alive, LoopInv, LoopOwned
  <1>3. \A u \in Calls : call[u].pc = "draining" =>
            worker[call[u].at].pc # "idle" /\ worker[call[u].at].owner = u
    BY DEF LoopInv, CallLoops, AtWork
  <1> QED BY <1>2, <1>3, Served DEF OneDrainer, LoopInv, FlagUp, NoStray

\* The flag elects one drainer per instance at a time, and nothing waits undrained, as long
\* as no statement of handleJob outside its try throws.
THEOREM SingleDrainer ==
  ASSUME Faults \cap {"read", "mark"} = {}
  PROVE  SafeSpec => []OneDrainer
  <1> DEFINE Inv == TypeInv /\ LoopInv /\ Alive
  <1>1. Init => Inv
    <2>1. Init => Alive
      BY IdleType DEF Init, Alive
    <2> QED BY <2>1, InitTypeInv, InitLoop
  <1>2. Inv /\ [Next]_vars => Inv'
    BY TypeInvStep, LoopStep, AliveStep
  <1>3. Inv => OneDrainer
    BY LoopMeansOneDrainer
  <1> QED BY <1>1, <1>2, <1>3, PTL DEF SafeSpec

(***************************************************************************)
(* Somebody settles every RUNNING job, where neither a fault nor a crash   *)
(* ends a loop.  A loop skips a file without a row, so the invariant also  *)
(* says that a job has one.                                                *)
(***************************************************************************)
JobKnown == \A f \in Files : job[f].status # "ABSENT" => Known(f)

\* Steps that touch no queue and no loop, and leave everybody who is about to enqueue there.
LEMMA HandledFrame ==
  ASSUME UNCHANGED <<queue, worker>>, NEW f \in Files, Handled(f),
         \A u \in Calls : call[u].pc = "enqueue" =>
                            call'[u].pc = "enqueue" /\ call'[u].file = call[u].file
  PROVE  Handled(f)'
  BY DEF Handled

\* What updateMany leaves behind.
LEMMA JobUpdateResult ==
  ASSUME TypeOK, NEW g \in Files, NEW s \in JobStatus, NEW e, NEW n, s # "ABSENT",
         JobUpdate(g, s, e, n)
  PROVE  \A f \in Files : /\ job'[f].status # "ABSENT" <=> job[f].status # "ABSENT"
                          /\ f # g => job'[f] = job[f]
                          /\ job'[f].status # job[f].status => f = g /\ job'[f].status = s
  BY DEF TypeOK, JobUpdate

RunInv == JobKnown /\ RunningHasOwner

LEMMA RunStep ==
  ASSUME MaxCrashes = 0
  PROVE  TypeInv /\ LoopInv /\ IntegrityInv /\ Alive /\ Alive' /\ RunInv /\ [Next]_vars => RunInv'
  <1> SUFFICES ASSUME TypeInv, LoopInv, IntegrityInv, Alive, Alive', RunInv, [Next]_vars
               PROVE  RunInv'
    OBVIOUS
  <1> USE DEF rows, loops
  <1>1. ASSUME UNCHANGED <<job, queue, worker>>,
               \A f \in Files : Known(f) => Known(f)',
               \A u \in Calls : call[u].pc = "enqueue" =>
                                  call'[u].pc = "enqueue" /\ call'[u].file = call[u].file
        PROVE  RunInv'
    BY <1>1, HandledFrame DEF RunInv, JobKnown, RunningHasOwner
  <1>2. ASSUME NEW u \in Calls, NEW i \in Instances, NEW f \in Files, NEW kind, NEW sum, NEW body,
               CreateFile(u, i, f, kind, sum, body)
        PROVE  RunInv'
    <2>1. /\ UNCHANGED <<job, queue, worker>>
          /\ \A v \in Calls : v # u => call'[v] = call[v]
          /\ call[u].pc = "unused"
          /\ file' = [file EXCEPT ![f] = [status |-> "PENDING_UPLOAD", checksum |-> sum]]
      BY <1>2 DEF CreateFile, TypeInv, TypeOK
    <2>2. \A g \in Files : Known(g) => Known(g)'
      BY <2>1 DEF Known, TypeInv, TypeOK
    <2> QED BY <1>1, <2>1, <2>2
  <1>3. ASSUME NEW u \in Calls, NEW i \in Instances, NEW f \in Files, NEW body,
               Receive(u, i, f, body)
        PROVE  RunInv'
    <2>1. /\ UNCHANGED <<job, file, queue, worker>>
          /\ \A v \in Calls : v # u => call'[v] = call[v]
          /\ call[u].pc = "unused"
      BY <1>3 DEF Receive, TypeInv, TypeOK
    <2> QED BY <1>1, <2>1 DEF Known
  <1>4. ASSUME NEW u \in Calls, NEW pc, Goto(u, pc), call[u].pc # "enqueue",
               UNCHANGED <<job, queue, worker>>, \A f \in Files : Known(f) => Known(f)'
        PROVE  RunInv'
    BY <1>1, <1>4, CallGoto
  <1>5. ASSUME NEW u \in Calls, FlagFile(u) \/ Upload(u) \/ UpdateRow(u) \/ Finish(u)
                                \/ RequestFails(u)
        PROVE  RunInv'
    <2>1. PICK pc : Goto(u, pc)
      BY <1>5, UploadStep DEF FlagFile, UpdateRow, Finish, RequestFails
    <2>2. call[u].pc # "enqueue" /\ UNCHANGED <<job, queue, worker>>
      BY <1>5, UploadStep DEF FlagFile, UpdateRow, Finish, RequestFails
    <2>3. \A f \in Files : Known(f) => Known(f)'
      <3>1. CASE FlagFile(u)
        BY <3>1 DEF FlagFile, Known, TypeInv, TypeOK
      <3>2. CASE UpdateRow(u)
        BY <3>2 DEF UpdateRow, Known, TypeInv, TypeOK
      <3>3. CASE Upload(u) \/ RequestFails(u)
        BY <3>3, UploadStep DEF RequestFails, Known
      <3>4. CASE Finish(u)
        BY <3>4 DEF Finish, Known, TypeInv, TypeOK
      <3> QED BY <1>5, <3>1, <3>2, <3>3, <3>4
    <2> QED BY <1>4, <2>1, <2>2, <2>3
  <1>6. ASSUME NEW u \in Calls, Reply(u) PROVE RunInv'
    <2>1. /\ UNCHANGED <<job, file, queue, worker>>
          /\ \A v \in Calls : v # u => call'[v] = call[v]
          /\ call[u].pc # "enqueue"
      BY <1>6 DEF Reply, TypeInv, TypeOK
    <2> QED BY <1>1, <2>1 DEF Known
  <1>7. ASSUME NEW u \in Calls, CreateJob(u) PROVE RunInv'
    <2>1. /\ UNCHANGED <<file, queue, worker>> /\ call[u].pc = "createJob"
          /\ job' = [job EXCEPT ![call[u].file] =
                       [status |-> "PENDING", lastError |-> "none", attempts |-> 0]]
      BY <1>7 DEF CreateJob
    <2>2. PICK pc : Goto(u, pc)
      BY <1>7 DEF CreateJob
    <2>3. Known(call[u].file)
      BY <2>1 DEF IntegrityInv, OnlyKnown, Used
    <2>4. \A f \in Files : \/ job'[f] = job[f]
                           \/ f = call[u].file /\ job'[f].status = "PENDING"
      BY <2>1 DEF TypeInv, TypeOK
    <2>5. JobKnown'
      BY <2>1, <2>3, <2>4 DEF RunInv, JobKnown, Known
    <2>6. RunningHasOwner'
      BY <2>1, <2>2, <2>4, CallGoto, HandledFrame DEF RunInv, RunningHasOwner
    <2> QED BY <2>5, <2>6 DEF RunInv
  <1>8. ASSUME NEW u \in Calls, FlagJob(u) \/ MarkRunning(u) PROVE RunInv'
    <2>1. PICK g \in Files : g = call[u].file
      BY <1>8 DEF FlagJob, MarkRunning, TypeInv, Bound, CallBound, Used
    <2>2. PICK s \in {"FAILED", "RUNNING"}, pc \in CallPc, e \in LastError :
             /\ Goto(u, pc) /\ JobUpdate(g, s, e, 0)
             /\ s = "RUNNING" => pc = "enqueue"
      <3>1. job[g].lastError \in LastError
        BY DEF TypeInv, TypeOK
      <3> QED BY <1>8, <2>1, <3>1 DEF FlagJob, MarkRunning, CallPc, OpenPc, LastError
    <2>3. UNCHANGED <<file, queue, worker>> /\ call[u].pc # "enqueue"
      BY <1>8 DEF FlagJob, MarkRunning
    <2>4. s \in JobStatus /\ s # "ABSENT"
      BY DEF JobStatus
    <2>5. \A f \in Files : /\ job'[f].status # "ABSENT" <=> job[f].status # "ABSENT"
                           /\ job'[f].status # job[f].status => f = g /\ job'[f].status = s
      BY <2>2, <2>4, JobUpdateResult DEF TypeInv
    <2>6. JobKnown'
      BY <2>3, <2>5 DEF RunInv, JobKnown, Known
    <2>7. ASSUME NEW f \in Files, job'[f].status = "RUNNING" PROVE Handled(f)'
      <3>1. CASE job[f].status = "RUNNING"
        BY <2>2, <2>3, <3>1, CallGoto, HandledFrame DEF RunInv, RunningHasOwner
      <3>2. CASE job[f].status # "RUNNING"
        BY <2>1, <2>2, <2>5, <2>7, <3>2, CallGoto DEF Handled
      <3> QED BY <3>1, <3>2
    <2> QED BY <2>6, <2>7 DEF RunInv, RunningHasOwner
  <1>9. ASSUME NEW u \in Calls, Enqueue(u) PROVE RunInv'
    <2>1. PICK i \in Instances, g \in Files : i = call[u].at /\ g = call[u].file
      BY <1>9, Served DEF Enqueue, TypeInv, Bound, CallBound, Used
    <2>2. UNCHANGED <<file, job>>
      BY <1>9 DEF Enqueue
    <2>3. PICK pc : Goto(u, pc)
      BY <1>9 DEF Enqueue
    <2>4. queue[i] \in Seq(Files)
      BY DEF TypeInv, TypeOK
    <2> DEFINE q == Append(queue[i], g)
    <2>5. ASSUME NEW f \in Files, Handled(f) PROVE Handled(f)'
      <3>1. CASE processing[i]
        <4>1. UNCHANGED worker /\ queue' = [queue EXCEPT ![i] = q]
          BY <1>9, <2>1, <3>1 DEF Enqueue
        <4>2. queue'[i] = q /\ \A k \in Instances : k # i => queue'[k] = queue[k]
          BY <4>1 DEF TypeInv, TypeOK
        <4>3. /\ DOMAIN q = 1..(Len(queue[i]) + 1) /\ q[Len(queue[i]) + 1] = g
              /\ \A n \in DOMAIN queue[i] : n \in DOMAIN q /\ q[n] = queue[i][n]
          BY <2>4
        <4>4. \E n \in DOMAIN q : q[n] = g
          <5>1. Len(queue[i]) \in Nat
            BY <2>4
          <5> QED BY <4>3, <5>1
        <4> HIDE DEF q
        <4> QED BY <2>1, <2>3, <2>5, <4>1, <4>2, <4>3, <4>4, CallGoto DEF Handled
      <3>2. CASE ~processing[i]
        <4>1. queue[i] = <<>> /\ worker[i].pc = "idle"
          BY <2>1, <3>2 DEF LoopInv, FlagUp, NoStray
        <4>2. queue' = [queue EXCEPT ![i] = Tail(q)] /\ worker' = [worker EXCEPT ![i] = Take(q, u)]
          BY <1>9, <2>1, <3>2 DEF Enqueue
        <4>3. Head(q) = g
          BY <2>4, <4>1
        <4>4. Take(q, u).pc = "read" /\ Take(q, u).file = g
          BY <4>3 DEF Take, Idle
        <4> HIDE DEF q
        <4>5. \A k \in Instances : worker'[k] = IF k = i THEN Take(q, u) ELSE worker[k]
          BY <4>2 DEF TypeInv, TypeOK
        <4>6. \A k \in Instances : k # i => queue'[k] = queue[k]
          BY <4>2 DEF TypeInv, TypeOK
        <4> QED BY <2>1, <2>3, <2>5, <4>1, <4>4, <4>5, <4>6, CallGoto DEF Handled
      <3> QED BY <3>1, <3>2
    <2> QED BY <2>2, <2>5 DEF RunInv, JobKnown, RunningHasOwner, Known
  <1>10. ASSUME NEW i \in Instances, ReadFile(i) \/ StubFails(i) PROVE RunInv'
    <2>1. UNCHANGED <<file, job, call, queue>> /\ worker[i].pc \in {"read", "stub"}
          /\ \A k \in Instances : k # i => worker'[k] = worker[k]
      BY <1>10 DEF ReadFile, StubFails, TypeInv, TypeOK
    <2>2. worker'[i].file = worker[i].file
          /\ (worker'[i].pc \in {"stub", "mark"} \/ ~Known(worker[i].file))
      BY <1>10 DEF ReadFile, StubFails, Known, TypeInv, TypeOK, WorkerRecord
    <2>3. ASSUME NEW f \in Files, job'[f].status = "RUNNING" PROVE Handled(f)'
      <3>1. Handled(f) /\ Known(f)
        BY <2>1, <2>3 DEF RunInv, RunningHasOwner, JobKnown
      <3> QED BY <2>1, <2>2, <3>1 DEF Handled
    <2> QED BY <2>1, <2>3 DEF RunInv, JobKnown, RunningHasOwner, Known
  <1>11. ASSUME NEW i \in Instances, WriteVariants(i) \/ MarkFailed(i) PROVE RunInv'
    <2>1. UNCHANGED <<file, call, queue>>
          /\ \A k \in Instances : k # i => worker'[k] = worker[k]
      BY <1>11 DEF WriteVariants, MarkFailed, TypeInv, TypeOK
    <2>2. PICK g \in Files : g = worker[i].file
      BY <1>11 DEF WriteVariants, MarkFailed, TypeInv, Bound, WorkerBound
    <2>3. PICK s \in {"COMPLETED", "FAILED"}, e \in LastError : JobUpdate(g, s, e, 1)
      BY <1>11, <2>2 DEF WriteVariants, MarkFailed, LastError
    <2>4. s \in JobStatus /\ s # "ABSENT"
      BY DEF JobStatus
    <2>5. \A f \in Files : /\ job'[f].status # "ABSENT" <=> job[f].status # "ABSENT"
                           /\ f # g => job'[f] = job[f]
                           /\ job'[f].status # job[f].status => f = g /\ job'[f].status = s
      BY <2>3, <2>4, JobUpdateResult DEF TypeInv
    <2>6. job'[g].status # "RUNNING"
      BY <2>3 DEF JobUpdate, TypeInv, TypeOK
    <2>7. ASSUME NEW f \in Files, job'[f].status = "RUNNING" PROVE Handled(f)'
      <3>1. f # g /\ Handled(f)
        BY <2>5, <2>6, <2>7 DEF RunInv, RunningHasOwner
      <3> QED BY <2>1, <2>2, <3>1 DEF Handled
    <2> QED BY <2>1, <2>5, <2>7 DEF RunInv, JobKnown, RunningHasOwner, Known
  <1>12. ASSUME NEW i \in Instances, NextJob(i) PROVE RunInv'
    <2> DEFINE u == worker[i].owner
    <2>1. UNCHANGED <<file, job>> /\ worker[i].pc = "next" /\ queue[i] \in Seq(Files)
          /\ u \in Calls
      BY <1>12, Owners DEF NextJob, TypeInv, TypeOK
    <2>2. ASSUME NEW f \in Files, Handled(f) PROVE Handled(f)'
      <3>1. CASE queue[i] = <<>>
        <4>1. UNCHANGED queue /\ worker' = [worker EXCEPT ![i] = Idle] /\ Goto(u, "finish")
          BY <1>12, <3>1 DEF NextJob
        <4>2. \A k \in Instances : k # i => worker'[k] = worker[k]
          BY <4>1 DEF TypeInv, TypeOK
        <4>3. call[u].pc # "enqueue"
          BY <2>1 DEF LoopInv, LoopOwned, AtWork
        <4> HIDE DEF u
        <4> QED BY <2>1, <2>2, <4>1, <4>2, <4>3, CallGoto DEF Handled
      <3>2. CASE queue[i] # <<>>
        <4>1. /\ UNCHANGED call /\ queue' = [queue EXCEPT ![i] = Tail(@)]
              /\ worker' = [worker EXCEPT ![i] = Take(queue[i], u)]
          BY <1>12, <3>2 DEF NextJob
        <4>2. \A k \in Instances : k # i => worker'[k] = worker[k] /\ queue'[k] = queue[k]
          BY <4>1 DEF TypeInv, TypeOK
        <4>3. worker'[i] = Take(queue[i], u) /\ queue'[i] = Tail(queue[i])
          BY <4>1 DEF TypeInv, TypeOK
        <4>4. worker'[i].pc = "read" /\ worker'[i].file = Head(queue[i])
          BY <4>3 DEF Take, Idle
        <4>5. ASSUME NEW n \in DOMAIN queue[i], n # 1
              PROVE  \E m \in DOMAIN queue'[i] : queue'[i][m] = queue[i][n]
          <5>1. n - 1 \in DOMAIN Tail(queue[i]) /\ Tail(queue[i])[n - 1] = queue[i][n]
            BY <2>1, <3>2, <4>5
          <5> QED BY <4>3, <5>1
        <4>6. Head(queue[i]) = queue[i][1]
          BY <2>1, <3>2
        <4> QED BY <2>1, <2>2, <4>1, <4>2, <4>4, <4>5, <4>6 DEF Handled
      <3> QED BY <3>1, <3>2
    <2> QED BY <2>1, <2>2 DEF RunInv, JobKnown, RunningHasOwner, Known
  <1>13. ASSUME NEW i \in Instances, WorkerDies(i) PROVE FALSE
    <2>1. worker'[i].pc = "dead"
      BY <1>13 DEF WorkerDies, TypeInv, TypeOK, WorkerRecord
    <2> QED BY <2>1 DEF Alive
  <1>14. ASSUME NEW i \in Instances, Crash(i) PROVE FALSE
    BY <1>14 DEF Crash, TypeInv, TypeOK
  <1>15. CASE UNCHANGED vars
    BY <1>1, <1>15 DEF vars, Known
  <1> QED BY <1>2, <1>3, <1>5, <1>6, <1>7, <1>8, <1>9, <1>10, <1>11, <1>12, <1>13, <1>14, <1>15
          DEF Next, Arrive, RequestUpload, IngestFile, Advance, Upload, Work

\* While the process lives and handleJob throws only inside its try, no job is left RUNNING
\* with nobody to settle it, however calls and the loop interleave.
THEOREM RunningSettled ==
  ASSUME Faults \cap {"read", "mark"} = {}, MaxCrashes = 0
  PROVE  SafeSpec => []RunningHasOwner
  <1> DEFINE Inv == TypeInv /\ LoopInv /\ IntegrityInv /\ Alive /\ RunInv
  <1>1. Init => Inv
    <2>1. Init => Alive /\ RunInv
      BY IdleType DEF Init, Alive, RunInv, JobKnown, RunningHasOwner
    <2> QED BY <2>1, InitTypeInv, InitLoop, InitIntegrity
  <1>2. Inv /\ [Next]_vars => Inv'
    BY TypeInvStep, LoopStep, IntegrityStep, AliveStep, RunStep
  <1>3. Inv => RunningHasOwner
    BY DEF RunInv
  <1> QED BY <1>1, <1>2, <1>3, PTL DEF SafeSpec

(***************************************************************************)
(* Clients that take turns on files registered without a checksum.  Then   *)
(* a recorded checksum never changes again: the one open call on a file    *)
(* carries it or ends with a mismatch, every queue and loop holds files    *)
(* that have one, and so what the object holds, the variant and the        *)
(* answers given agree with it, whatever failed or was killed in between.  *)
(***************************************************************************)
Sum(f)  == file[f].checksum
Kept(f) == Known(f) /\ Sum(f) # NoContent

Undeclared(f) == declared[f] = NoContent

OneSender ==
    \A u, v \in Calls : Open(u) /\ Open(v) /\ call[u].file = call[v].file
                         /\ Undeclared(call[u].file) => u = v

CallAgrees(u) ==
    LET f == call[u].file
        body == call[u].body
        pc == call[u].pc
    IN
    /\ call[u].answer = "COMPLETED" => pc = "done"
    /\ Undeclared(f) =>
        /\ pc \in Transfer => body \in Contents /\ Sum(f) \in {NoContent, body}
        /\ pc = "createJob" /\ call[u].kind # "REQUEST" => body \in Contents /\ Sum(f) = NoContent
        /\ pc \in Transfer \ {"put"} => object[f].of = {body}
        /\ pc \in Transfer \ {"put", "fill", "row"} => Sum(f) = body
        /\ call[u].answer = "COMPLETED" =>
             body # NoContent /\ Sum(f) = body /\ variant[f] = body

RowAgrees(f) ==
    Undeclared(f) =>
    /\ Sum(f) # NoContent => object[f].of \subseteq {Sum(f)}
    /\ file[f].status = "STORED" => Sum(f) # NoContent /\ object[f].of = {Sum(f)}
    /\ variant[f] \in {NoContent, Sum(f)}
    /\ job[f].status = "COMPLETED" => variant[f] # NoContent

LoopAgrees(i) ==
    /\ worker[i].pc \in {"read", "stub"} /\ Undeclared(worker[i].file) => Kept(worker[i].file)
    /\ worker[i].pc = "stub" /\ Undeclared(worker[i].file) => worker[i].seen = Sum(worker[i].file)
    /\ \A k \in DOMAIN queue[i] : Undeclared(queue[i][k]) => Kept(queue[i][k])

SerialInv ==
    /\ OneSender /\ JobKnown
    /\ \A u \in Calls : CallAgrees(u)
    /\ \A f \in Files : RowAgrees(f)
    /\ \A i \in Instances : LoopAgrees(i)

USE DEF Undeclared

LEMMA InitSerial == Init => SerialInv
  <1> SUFFICES ASSUME Init PROVE SerialInv
    OBVIOUS
  <1>1. \A u \in Calls : call[u].pc = "unused" /\ call[u].answer = "none"
    BY DEF Init, Unused
  <1>2. \A i \in Instances : worker[i].pc = "idle" /\ queue[i] = <<>>
    BY DEF Init, Idle
  <1>3. \A f \in Files : /\ file[f].status = "ABSENT" /\ Sum(f) = NoContent
                         /\ variant[f] = NoContent /\ job[f].status = "ABSENT"
    BY DEF Init, Sum
  <1>4. OneSender /\ JobKnown
    BY <1>1, <1>3 DEF OneSender, JobKnown, Open, OpenPc
  <1>5. \A u \in Calls : CallAgrees(u)
    BY <1>1 DEF CallAgrees, Transfer
  <1>6. \A f \in Files : RowAgrees(f)
    BY <1>3 DEF RowAgrees
  <1>7. \A i \in Instances : LoopAgrees(i)
    BY <1>2 DEF LoopAgrees
  <1> QED BY <1>4, <1>5, <1>6, <1>7 DEF SerialInv

\* Nothing a step did took a recorded checksum or a written variant away.
Stays ==
    \A f \in Files : /\ Known(f) => declared'[f] = declared[f]
                     /\ Undeclared(f) /\ Kept(f) => Kept(f)' /\ Sum(f)' = Sum(f)
VariantStays ==
    \A f \in Files : Undeclared(f) /\ variant[f] # NoContent => variant'[f] = variant[f]

\* A step of one open call, or of the loop it runs, disturbs no other call.
LEMMA CallsFrame ==
  ASSUME TypeInv, IntegrityInv, SerialInv, NEW u \in Calls, Open(u),
         \A v \in Calls : v # u => call'[v] = call[v],
         call'[u].file = call[u].file, CallAgrees(u)', Stays, VariantStays, UNCHANGED declared,
         \A f \in Files : f # call[u].file => Sum(f)' = Sum(f) /\ object'[f] = object[f]
  PROVE  OneSender' /\ \A v \in Calls : CallAgrees(v)'
  <1>1. OneSender'
    BY DEF SerialInv, OneSender, Open
  <1>2. ASSUME NEW v \in Calls, v # u, Open(v) PROVE CallAgrees(v)'
    <2>1. call[v].file \in Files /\ (Undeclared(call[v].file) => call[v].file # call[u].file)
      BY <1>2 DEF SerialInv, OneSender, TypeInv, Bound, CallBound, Used, Open, OpenPc
    <2>2. call[v].answer # "COMPLETED"
      BY <1>2 DEF SerialInv, CallAgrees, Open, OpenPc
    <2> QED BY <1>2, <2>1, <2>2 DEF SerialInv, CallAgrees
  <1>3. ASSUME NEW v \in Calls, v # u, ~Open(v) PROVE CallAgrees(v)'
    <2>1. call[v].pc \notin Transfer \cup {"createJob"}
      BY <1>3 DEF Open, OpenPc, Transfer
    <2>2. CASE call[v].answer = "COMPLETED"
      <3>1. call[v].pc = "done"
        BY <2>2 DEF SerialInv, CallAgrees
      <3>2. call[v].file \in Files /\ Known(call[v].file)
        BY <3>1 DEF TypeInv, Bound, CallBound, Used, IntegrityInv, OnlyKnown
      <3> QED BY <1>3, <2>1, <2>2, <3>2 DEF SerialInv, CallAgrees, Kept, Stays, VariantStays
    <2>3. CASE call[v].answer # "COMPLETED"
      BY <1>3, <2>1, <2>3 DEF CallAgrees
    <2> QED BY <2>2, <2>3
  <1> QED BY <1>1, <1>2, <1>3

\* Neither does a step of a loop that moves no call.
LEMMA CallsStay ==
  ASSUME TypeInv, SerialInv, UNCHANGED <<file, object, declared, call>>, VariantStays
  PROVE  OneSender' /\ \A v \in Calls : CallAgrees(v)'
  <1>1. OneSender'
    BY DEF SerialInv, OneSender, Open
  <1>2. ASSUME NEW v \in Calls PROVE CallAgrees(v)'
    <2>1. CallAgrees(v)
      BY DEF SerialInv
    <2>2. call[v].answer = "COMPLETED" => call[v].file \in Files
      BY <2>1 DEF CallAgrees, TypeInv, Bound, CallBound, Used
    <2> QED BY <2>1, <2>2 DEF CallAgrees, Sum, VariantStays
  <1> QED BY <1>1, <1>2

\* Rows stay as they were where a step leaves them alone.
LEMMA RowFrame ==
  ASSUME SerialInv, NEW f \in Files, file'[f] = file[f], variant'[f] = variant[f],
         object'[f] = object[f], declared'[f] = declared[f],
         job'[f].status = "COMPLETED" => job[f].status = "COMPLETED"
  PROVE  RowAgrees(f)'
  BY DEF SerialInv, RowAgrees, Sum

\* Loops that a step leaves alone still hold files with a recorded checksum.
LEMMA LoopsFrame ==
  ASSUME TypeInv, IntegrityInv, SerialInv, UNCHANGED <<queue, worker>>, Stays
  PROVE  \A i \in Instances : LoopAgrees(i)'
  <1>1. \A i \in Instances : queue[i] \in Seq(Files)
    BY DEF TypeInv, TypeOK
  <1>2. \A i \in Instances : worker[i].pc \in {"read", "stub"} => worker[i].file \in Files
    BY DEF TypeInv, Bound, WorkerBound
  <1>3. \A f \in Files : Undeclared(f)' => Undeclared(f)
    BY DEF IntegrityInv, OnlyKnown, Stays
  <1>4. \A f \in Files : Undeclared(f)' /\ Kept(f) => Kept(f)' /\ Sum(f)' = Sum(f)
    BY <1>3 DEF Stays
  <1> QED BY <1>1, <1>2, <1>3, <1>4 DEF SerialInv, LoopAgrees

\* A call that is somewhere in the transfer is open, and so is one inside processQueue.
LEMMA OpenCalls ==
  ASSUME TypeInv, LoopInv
  PROVE  /\ \A u \in Calls : Open(u) => call[u].file \in Files /\ Used(u)
         /\ \A i \in Instances : worker[i].pc \in AtWork =>
              worker[i].owner \in Calls /\ Open(worker[i].owner)
              /\ call[worker[i].owner].pc = "draining"
  <1>1. \A i \in Instances : worker[i].pc \in AtWork => worker[i].owner \in Calls
    BY Owners DEF AtWork
  <1> QED BY <1>1 DEF TypeInv, Bound, CallBound, Used, Open, OpenPc, LoopInv, LoopOwned

\* Jobs have a file row, whatever fails or crashes.
LEMMA JobKnownStep == TypeInv /\ IntegrityInv /\ JobKnown /\ [Next]_vars => JobKnown'
  <1> SUFFICES ASSUME TypeInv, IntegrityInv, JobKnown, [Next]_vars PROVE JobKnown'
    OBVIOUS
  <1> USE DEF rows, loops
  <1>1. \A f \in Files : Known(f) => Known(f)'
    <2>1. CASE UNCHANGED file
      BY <2>1 DEF Known
    <2>2. ASSUME NEW u \in Calls, NEW i \in Instances, NEW f \in Files, NEW kind, NEW sum, NEW body,
                 CreateFile(u, i, f, kind, sum, body)
          PROVE  \A g \in Files : Known(g) => Known(g)'
      BY <2>2 DEF CreateFile, Known, TypeInv, TypeOK
    <2>3. ASSUME NEW u \in Calls, FlagFile(u) \/ UpdateRow(u)
          PROVE  \A g \in Files : Known(g) => Known(g)'
      <3>1. CASE FlagFile(u)
        BY <3>1 DEF FlagFile, Known, TypeInv, TypeOK
      <3>2. CASE UpdateRow(u)
        BY <3>2 DEF UpdateRow, Known, TypeInv, TypeOK
      <3> QED BY <2>3, <3>1, <3>2
    <2>4. ASSUME NEW u \in Calls, Finish(u)
          PROVE  \A g \in Files : Known(g) => Known(g)'
      BY <2>4 DEF Finish, Known, TypeInv, TypeOK
    <2> QED BY <2>1, <2>2, <2>3, <2>4, UploadStep
            DEF Next, Arrive, RequestUpload, IngestFile, Receive, Advance, Upload, CreateJob,
                FlagJob, MarkRunning, Enqueue, Reply, RequestFails, Work, ReadFile,
                WriteVariants, StubFails, MarkFailed, NextJob, WorkerDies, Crash, vars
  <1>2. \A f \in Files : job'[f].status # "ABSENT" => job[f].status # "ABSENT" \/ Known(f)
    <2>1. CASE UNCHANGED job
      BY <2>1
    <2>2. ASSUME NEW u \in Calls, CreateJob(u)
          PROVE  \A f \in Files : job'[f].status # "ABSENT" => job[f].status # "ABSENT" \/ Known(f)
      <3>1. Known(call[u].file)
        BY <2>2 DEF CreateJob, IntegrityInv, OnlyKnown, Used
      <3> QED BY <2>2, <3>1 DEF CreateJob, TypeInv, TypeOK
    <2>3. ASSUME NEW g, NEW s, NEW e, NEW n, JobUpdate(g, s, e, n)
          PROVE  \A f \in Files : job'[f].status # "ABSENT" => job[f].status # "ABSENT"
      BY <2>3 DEF JobUpdate, TypeInv, TypeOK
    <2>4. ASSUME NEW u \in Calls, FlagJob(u) \/ MarkRunning(u)
          PROVE  \A f \in Files : job'[f].status # "ABSENT" => job[f].status # "ABSENT" \/ Known(f)
      BY <2>3, <2>4 DEF FlagJob, MarkRunning
    <2>5. ASSUME NEW i \in Instances, WriteVariants(i) \/ MarkFailed(i)
          PROVE  \A f \in Files : job'[f].status # "ABSENT" => job[f].status # "ABSENT" \/ Known(f)
      BY <2>3, <2>5 DEF WriteVariants, MarkFailed
    <2>6. ASSUME NEW u \in Calls, Arrive(u) \/ Advance(u) \/ PutUnanswered(u) \/ RequestFails(u),
                 ~CreateJob(u), ~FlagJob(u), ~MarkRunning(u)
          PROVE  UNCHANGED job
      BY <2>6, UploadStep DEF Arrive, RequestUpload, IngestFile, CreateFile, Receive, Advance, Upload,
                  FlagFile, UpdateRow, Enqueue, Finish, Reply, RequestFails
    <2>7. ASSUME NEW i \in Instances, Work(i) \/ Crash(i), ~WriteVariants(i), ~MarkFailed(i)
          PROVE  UNCHANGED job
      BY <2>7 DEF Work, ReadFile, StubFails, NextJob, WorkerDies, Crash
    <2>8. UNCHANGED vars => UNCHANGED job
      BY DEF vars
    <2> QED BY <2>1, <2>2, <2>4, <2>5, <2>6, <2>7, <2>8 DEF Next
  <1> QED BY <1>1, <1>2 DEF JobKnown

LEMMA SerialStep ==
  ASSUME SerialClients
  PROVE  TypeInv /\ LoopInv /\ IntegrityInv /\ SerialInv /\ [Next]_vars => SerialInv'
  <1> SUFFICES ASSUME TypeInv, LoopInv, IntegrityInv, SerialInv, [Next]_vars PROVE SerialInv'
    OBVIOUS
  <1> USE DEF rows, loops
  <1> DEFINE Calm == OneSender' /\ \A v \in Calls : CallAgrees(v)'
             Tidy == \A f \in Files : RowAgrees(f)'
             Fed  == \A i \in Instances : LoopAgrees(i)'
  <1>0. JobKnown'
    BY JobKnownStep DEF SerialInv
  <1>1. ASSUME UNCHANGED <<file, variant, object, declared>> PROVE Stays /\ VariantStays
    BY <1>1 DEF Stays, VariantStays, Kept, Known, Sum
  <1>2. ASSUME NEW u \in Calls, NEW i \in Instances, NEW f \in Files, NEW kind \in CallKind,
               NEW sum \in Checksum, NEW body \in Checksum, CreateFile(u, i, f, kind, sum, body),
               kind # "REQUEST" => sum = NoContent /\ body \in Contents
        PROVE  Calm /\ Tidy /\ Fed
    <2> DEFINE c == [Unused EXCEPT !.pc = "createJob", !.kind = kind, !.at = i,
                                   !.file = f, !.body = body]
    <2>1. c.pc = "createJob" /\ c.file = f /\ c.kind = kind /\ c.body = body /\ c.answer = "none"
      BY UnusedType DEF CallRecord, Unused
    <2>2. /\ call' = [call EXCEPT ![u] = c] /\ ~Used(u) /\ ~Known(f)
          /\ file' = [file EXCEPT ![f] = [status |-> "PENDING_UPLOAD", checksum |-> sum]]
          /\ declared' = [declared EXCEPT ![f] = sum]
          /\ UNCHANGED <<job, variant, object, queue, worker>>
      BY <1>2 DEF CreateFile, Used, Known
    <2>3. call'[u] = c /\ \A v \in Calls : v # u => call'[v] = call[v]
      BY <2>2 DEF TypeInv, TypeOK
    <2> HIDE DEF c
    <2>4. /\ file'[f].status = "PENDING_UPLOAD" /\ Sum(f)' = sum
          /\ \A g \in Files : g # f => file'[g] = file[g] /\ declared'[g] = declared[g]
      BY <2>2 DEF TypeInv, TypeOK, Sum
    <2>5. \A v \in Calls : Used(v) => call[v].file \in Files /\ call[v].file # f
      BY <2>2 DEF IntegrityInv, OnlyKnown, TypeInv, Bound, CallBound
    <2>6. Stays
      BY <2>2, <2>4 DEF Stays, Kept, Known, Sum
    <2>7. OneSender'
      <3>1. \A v \in Calls : Open(v) /\ v # u /\ Undeclared(call[v].file)' => Undeclared(call[v].file)
        BY <2>3, <2>4, <2>5 DEF Open, OpenPc, Used
      <3> QED BY <2>1, <2>3, <2>5, <3>1 DEF SerialInv, OneSender, Open, OpenPc, Used
    <2>8. ASSUME NEW v \in Calls, v # u PROVE CallAgrees(v)'
      <3>1. CallAgrees(v)
        BY DEF SerialInv
      <3>2. CASE Used(v)
        BY <2>2, <2>3, <2>4, <2>5, <2>8, <3>1, <3>2 DEF CallAgrees, Sum
      <3>3. CASE ~Used(v)
        BY <2>3, <2>8, <3>1, <3>3 DEF CallAgrees, Used, Transfer
      <3> QED BY <3>2, <3>3
    <2>9. CallAgrees(u)'
      BY <1>2, <2>1, <2>3, <2>4 DEF CallAgrees, Transfer
    <2>10. RowAgrees(f)'
      <3>1. object[f].of = {} /\ variant[f] = NoContent /\ job[f].status = "ABSENT"
        BY <2>2 DEF IntegrityInv, OnlyKnown, SerialInv, JobKnown
      <3> QED BY <2>2, <2>4, <3>1 DEF RowAgrees
    <2>11. Tidy
      BY <2>2, <2>4, <2>10, RowFrame
    <2> QED BY <2>2, <2>6, <2>7, <2>8, <2>9, <2>11, LoopsFrame
  <1>3. ASSUME NEW u \in Calls, NEW i \in Instances, NEW f \in Files, NEW body \in Contents,
               Receive(u, i, f, body)
        PROVE  Calm /\ Tidy /\ Fed
    <2> DEFINE right == file[f].checksum \in {NoContent, body}
               c == [Unused EXCEPT !.pc = IF right THEN "put" ELSE "flagFile",
                                   !.kind = "PUT", !.at = i, !.file = f,
                                   !.body = body, !.seen = file[f].checksum]
    <2>1. /\ c.file = f /\ c.body = body /\ c.pc \in {"put", "flagFile"} /\ c.answer = "none"
          /\ c.pc = "put" => Sum(f) \in {NoContent, body}
      BY UnusedType DEF CallRecord, Unused, Sum
    <2>2. /\ call' = [call EXCEPT ![u] = c] /\ UNCHANGED <<rows, loops, crashes>>
          /\ \A v \in Calls : Undeclared(f) /\ call[v].file = f => ~Open(v)
      BY <1>3, SerialClients DEF Receive, Undeclared
    <2>3. call'[u] = c /\ \A v \in Calls : v # u => call'[v] = call[v]
      BY <2>2 DEF TypeInv, TypeOK
    <2> HIDE DEF c
    <2>4. OneSender'
      BY <2>1, <2>2, <2>3 DEF SerialInv, OneSender, Open
    <2>5. \A v \in Calls : v # u => CallAgrees(v)'
      BY <2>2, <2>3 DEF SerialInv, CallAgrees, Sum
    <2>6. CallAgrees(u)'
      BY <2>1, <2>2, <2>3 DEF CallAgrees, Transfer, Sum
    <2>7. Tidy /\ Fed
      BY <1>1, <2>2, RowFrame, LoopsFrame
    <2> QED BY <2>4, <2>5, <2>6, <2>7
  <1>4. ASSUME NEW u \in Calls, NEW pc \in CallPc, Goto(u, pc), Open(u), pc # "createJob",
               UNCHANGED <<file, variant, object, declared>>,
               Undeclared(call[u].file) =>
                 /\ pc \in Transfer => call[u].body \in Contents
                                        /\ Sum(call[u].file) \in {NoContent, call[u].body}
                 /\ pc \in Transfer \ {"put"} => object[call[u].file].of = {call[u].body}
                 /\ pc \in Transfer \ {"put", "fill", "row"} => Sum(call[u].file) = call[u].body
        PROVE  Calm
    <2>1. /\ \A v \in Calls : v # u => call'[v] = call[v]
          /\ call'[u].file = call[u].file /\ call'[u].body = call[u].body /\ call'[u].pc = pc
          /\ call'[u].answer = call[u].answer
      BY <1>4 DEF Goto, TypeInv, TypeOK, CallRecord
    <2>2. call[u].answer # "COMPLETED"
      BY <1>4 DEF SerialInv, CallAgrees, Open, OpenPc
    <2>3. CallAgrees(u)'
      BY <1>4, <2>1, <2>2 DEF CallAgrees, Sum
    <2>4. \A f \in Files : Sum(f)' = Sum(f) /\ object'[f] = object[f]
      BY <1>4 DEF Sum
    <2> QED BY <1>1, <1>4, <2>1, <2>3, <2>4, CallsFrame
  <1>5. ASSUME NEW u \in Calls, CreateJob(u) PROVE Calm /\ Tidy /\ Fed
    <2> DEFINE pc == IF call[u].kind = "REQUEST" THEN "done" ELSE "put"
    <2>1. /\ Goto(u, pc) /\ Open(u) /\ UNCHANGED <<file, variant, object, declared, queue, worker>>
          /\ job' = [job EXCEPT ![call[u].file] =
                       [status |-> "PENDING", lastError |-> "none", attempts |-> 0]]
      BY <1>5 DEF CreateJob, Open, OpenPc
    <2>2. pc \in CallPc /\ pc # "createJob" /\ (pc \in Transfer => pc = "put")
      BY DEF CallPc, OpenPc, Transfer
    <2>3. pc = "put" /\ Undeclared(call[u].file) =>
             call[u].body \in Contents /\ Sum(call[u].file) = NoContent
      BY <1>5 DEF CreateJob, SerialInv, CallAgrees
    <2> HIDE DEF pc
    <2>4. Calm
      BY <1>4, <2>1, <2>2, <2>3
    <2>5. \A f \in Files : job'[f].status = "COMPLETED" => job[f].status = "COMPLETED"
      BY <2>1 DEF TypeInv, TypeOK
    <2> QED BY <1>1, <2>1, <2>4, <2>5, RowFrame, LoopsFrame
  <1>6. ASSUME NEW u \in Calls, FlagFile(u) PROVE Calm /\ Tidy /\ Fed
    <2>1. /\ Goto(u, "flagJob") /\ Open(u) /\ UNCHANGED <<job, variant, object, declared, queue, worker>>
          /\ \A f \in Files : file'[f].checksum = file[f].checksum
          /\ \A f \in Files : f # call[u].file => file'[f] = file[f]
          /\ \A f \in Files : f = call[u].file => file'[f].status = "CHECKSUM_FAILED"
      BY <1>6 DEF FlagFile, Open, OpenPc, TypeInv, TypeOK
    <2>2. Stays /\ VariantStays
      BY <2>1 DEF Stays, VariantStays, Kept, Known, Sum
    <2>3. /\ \A v \in Calls : v # u => call'[v] = call[v]
          /\ call'[u].file = call[u].file /\ call'[u].pc = "flagJob"
          /\ call'[u].answer = call[u].answer
      BY <2>1 DEF Goto, TypeInv, TypeOK, CallRecord
    <2>4. call[u].answer # "COMPLETED"
      BY <2>1 DEF SerialInv, CallAgrees, Open, OpenPc
    <2>5. CallAgrees(u)'
      BY <2>3, <2>4 DEF CallAgrees, Transfer
    <2>6. Calm
      BY <2>1, <2>2, <2>3, <2>5, CallsFrame DEF Sum
    <2>7. Tidy
      BY <2>1, RowFrame DEF SerialInv, RowAgrees, Sum
    <2> QED BY <2>1, <2>2, <2>6, <2>7, LoopsFrame
  <1>7. ASSUME NEW u \in Calls, FlagJob(u) PROVE Calm /\ Tidy /\ Fed
    <2>1. /\ Goto(u, "failed") /\ Open(u) /\ UNCHANGED <<file, variant, object, declared, queue, worker>>
          /\ JobUpdate(call[u].file, "FAILED", "CHECKSUM_MISMATCH", 0)
      BY <1>7 DEF FlagJob, Open, OpenPc
    <2>2. "failed" \in CallPc /\ "failed" \notin Transfer
      BY DEF CallPc, Transfer
    <2>3. Calm
      BY <1>4, <2>1, <2>2
    <2>4. \A f \in Files : job'[f].status = "COMPLETED" => job[f].status = "COMPLETED"
      BY <2>1 DEF JobUpdate, TypeInv, TypeOK
    <2> QED BY <1>1, <2>1, <2>3, <2>4, RowFrame, LoopsFrame
  <1>8. ASSUME NEW u \in Calls, Upload(u) PROVE Calm /\ Tidy /\ Fed
    <2>0. PICK f \in Files : f = call[u].file
      BY <1>8, UploadStep
    <2>1. /\ Open(u) /\ call[u].pc \in {"put", "fill"}
          /\ UNCHANGED <<file, job, variant, declared, queue, worker>>
          /\ \A g \in Files : g # f => object'[g] = object[g]
      BY <1>8, <2>0, UploadStep DEF Open, OpenPc
    <2>2. PICK pc \in {"fill", "row", "failed"} : Goto(u, pc)
      BY <1>8, UploadStep
    <2>3. \A v \in Calls : Undeclared(f) /\ call[v].file = f /\ call[v].pc = "fill" => v = u
      BY <2>0, <2>1 DEF SerialInv, OneSender, Open, OpenPc
    <2>4. Undeclared(f) => /\ object'[f].of = {call[u].body}
                           /\ call[u].body \in Contents /\ Sum(f) \in {NoContent, call[u].body}
      <3>1. CallAgrees(u)
        BY DEF SerialInv
      <3> QED BY <1>8, <2>0, <2>1, <2>3, <3>1, UploadOf DEF CallAgrees, Transfer
    <2>5. /\ \A v \in Calls : v # u => call'[v] = call[v]
          /\ call'[u].file = f /\ call'[u].pc = pc /\ call'[u].body = call[u].body
          /\ call'[u].answer = call[u].answer
      BY <2>0, <2>2 DEF Goto, TypeInv, TypeOK, CallRecord
    <2>6. call[u].answer # "COMPLETED"
      BY <2>0, <2>1 DEF SerialInv, CallAgrees, Open, OpenPc
    <2>7. CallAgrees(u)'
      BY <2>1, <2>2, <2>4, <2>5, <2>6 DEF CallAgrees, Transfer, Sum, Undeclared
    <2>8. Stays /\ VariantStays
      BY <2>1 DEF Stays, VariantStays, Kept, Known, Sum
    <2>9. Calm
      <3>1. \A g \in Files : g # call[u].file => Sum(g)' = Sum(g) /\ object'[g] = object[g]
        BY <2>0, <2>1 DEF Sum
      <3> QED BY <2>0, <2>1, <2>5, <2>7, <2>8, <3>1, CallsFrame
    <2>10. RowAgrees(f)'
      <3>1. RowAgrees(f)
        BY DEF SerialInv
      <3>2. Undeclared(f) => \A c : call[u].body = c => object'[f].of = {c}
        BY <2>4
      <3> QED BY <2>1, <2>4, <3>1, <3>2 DEF RowAgrees, Sum, Undeclared
    <2> QED BY <2>1, <2>8, <2>9, <2>10, RowFrame, LoopsFrame
  <1>9. ASSUME NEW u \in Calls, UpdateRow(u) PROVE Calm /\ Tidy /\ Fed
    <2>0. PICK f \in Files : f = call[u].file
      BY <1>9, OpenCalls DEF UpdateRow, Open, OpenPc
    <2>1. /\ Goto(u, "run") /\ Open(u) /\ call[u].pc \in Transfer \ {"put", "fill"}
          /\ UNCHANGED <<job, object, variant, declared, queue, worker>>
          /\ file' = [file EXCEPT ![f] = [status |-> "STORED", checksum |-> call[u].body]]
      BY <1>9, <2>0 DEF UpdateRow, Open, OpenPc, Transfer
    <2>3. /\ file'[f].status = "STORED" /\ Sum(f)' = call[u].body
          /\ \A g \in Files : g # f => file'[g] = file[g]
      BY <2>1 DEF TypeInv, TypeOK, Sum
    <2>4. Undeclared(f) => /\ call[u].body \in Contents /\ Sum(f) \in {NoContent, call[u].body}
                           /\ object[f].of = {call[u].body}
      BY <2>0, <2>1 DEF SerialInv, CallAgrees
    <2>5. /\ \A v \in Calls : v # u => call'[v] = call[v]
          /\ call'[u].file = f /\ call'[u].pc = "run" /\ call'[u].body = call[u].body
          /\ call'[u].answer = call[u].answer
      BY <2>0, <2>1 DEF Goto, TypeInv, TypeOK, CallRecord
    <2>6. call[u].answer # "COMPLETED"
      BY <2>1 DEF SerialInv, CallAgrees, Open, OpenPc
    <2>7. CallAgrees(u)'
      BY <2>1, <2>3, <2>4, <2>5, <2>6 DEF CallAgrees, Transfer
    <2>8. Stays /\ VariantStays
      BY <2>1, <2>3, <2>4 DEF Stays, VariantStays, Kept, Known, Sum
    <2>9. Calm
      <3>1. \A g \in Files : g # call[u].file => Sum(g)' = Sum(g) /\ object'[g] = object[g]
        BY <2>0, <2>1, <2>3 DEF Sum
      <3> QED BY <2>1, <2>5, <2>7, <2>8, <3>1, <2>0, CallsFrame
    <2>10. RowAgrees(f)'
      <3>1. Undeclared(f) => call[u].body # NoContent
        BY <2>4, IngestionAssumption
      <3>2. Undeclared(f) => variant[f] \in {NoContent, call[u].body}
        BY <2>0, <2>4 DEF SerialInv, RowAgrees
      <3> QED BY <2>1, <2>3, <2>4, <3>1, <3>2 DEF SerialInv, RowAgrees
    <2> QED BY <2>1, <2>3, <2>8, <2>9, <2>10, RowFrame, LoopsFrame
  <1>10. ASSUME NEW u \in Calls, MarkRunning(u) PROVE Calm /\ Tidy /\ Fed
    <2>1. /\ Goto(u, "enqueue") /\ Open(u) /\ call[u].pc \in Transfer \ {"put", "fill", "row"}
          /\ UNCHANGED <<file, variant, object, declared, queue, worker>>
          /\ JobUpdate(call[u].file, "RUNNING", job[call[u].file].lastError, 0)
      BY <1>10 DEF MarkRunning, Open, OpenPc, Transfer
    <2>2. "enqueue" \in CallPc
      BY DEF CallPc, OpenPc
    <2>3. Calm
      BY <1>4, <2>1, <2>2 DEF SerialInv, CallAgrees
    <2>4. \A f \in Files : job'[f].status = "COMPLETED" => job[f].status = "COMPLETED"
      BY <2>1 DEF JobUpdate, TypeInv, TypeOK
    <2> QED BY <1>1, <2>1, <2>3, <2>4, RowFrame, LoopsFrame
  <1>11. ASSUME NEW u \in Calls, Enqueue(u) PROVE Calm /\ Tidy /\ Fed
    <2>0. PICK i \in Instances, f \in Files : i = call[u].at /\ f = call[u].file
      BY <1>11, OpenCalls, Served DEF Enqueue, Open, OpenPc
    <2> DEFINE q == Append(queue[i], f)
    <2>1. /\ UNCHANGED rows /\ Open(u) /\ call[u].pc \in Transfer \ {"put", "fill", "row"}
          /\ queue[i] \in Seq(Files)
      BY <1>11 DEF Enqueue, Open, OpenPc, Transfer, TypeInv, TypeOK
    <2>2. PICK pc \in {"finish", "draining"} : Goto(u, pc)
      BY <1>11 DEF Enqueue
    <2>3. pc \in CallPc /\ pc # "createJob"
      BY DEF CallPc, OpenPc
    <2>4. Calm
      BY <1>4, <2>1, <2>2, <2>3 DEF SerialInv, CallAgrees
    <2>5. Tidy
      BY <2>1, RowFrame
    <2>6. Undeclared(f) => Kept(f)
      <3>1. Undeclared(f) => Sum(f) = call[u].body /\ call[u].body \in Contents
        BY <2>0, <2>1 DEF SerialInv, CallAgrees
      <3>2. Known(f)
        BY <2>0, <2>1, OpenCalls DEF IntegrityInv, OnlyKnown
      <3> QED BY <3>1, <3>2, IngestionAssumption DEF Kept
    <2>7. \A g : (Kept(g)' <=> Kept(g)) /\ Sum(g)' = Sum(g)
      BY <2>1 DEF Kept, Known, Sum
    <2>8. LoopAgrees(i)'
      <3>1. \A k \in DOMAIN q : Undeclared(q[k]) => Kept(q[k])
        BY <2>1, <2>6 DEF SerialInv, LoopAgrees
      <3>2. CASE processing[i]
        <4>1. queue'[i] = q /\ UNCHANGED worker
          BY <1>11, <2>0, <3>2 DEF Enqueue, TypeInv, TypeOK
        <4> QED BY <2>1, <3>1, <4>1 DEF SerialInv, LoopAgrees, Kept, Known, Sum
      <3>3. CASE ~processing[i]
        <4>1. queue'[i] = Tail(q) /\ worker'[i] = Take(q, u)
          BY <1>11, <2>0, <3>3 DEF Enqueue, TypeInv, TypeOK
        <4>2. q \in Seq(Files) /\ q # <<>> /\ Head(q) = q[1] /\ 1 \in DOMAIN q
          BY <2>1
        <4>3. \A k \in DOMAIN Tail(q) : k + 1 \in DOMAIN q /\ Tail(q)[k] = q[k + 1]
          BY <4>2
        <4>4. Take(q, u).pc = "read" /\ Take(q, u).file = Head(q)
          BY DEF Take, Idle
        <4> HIDE DEF q
        <4> QED BY <2>1, <3>1, <4>1, <4>2, <4>3, <4>4 DEF LoopAgrees, Kept, Known, Sum
      <3> QED BY <3>2, <3>3
    <2>9. \A k \in Instances : k # i => worker'[k] = worker[k] /\ queue'[k] = queue[k]
      BY <1>11, <2>0 DEF Enqueue, TypeInv, TypeOK
    <2>10. Fed
      BY <2>1, <2>8, <2>9 DEF SerialInv, LoopAgrees, Kept, Known, Sum
    <2> QED BY <2>4, <2>5, <2>10
  <1>12. ASSUME NEW u \in Calls, Finish(u) PROVE Calm /\ Tidy /\ Fed
    <2>1. /\ Goto(u, "reply") /\ Open(u) /\ call[u].pc \in Transfer \ {"put", "fill", "row"}
          /\ UNCHANGED <<job, variant, object, declared, queue, worker>>
      BY <1>12 DEF Finish, Open, OpenPc, Transfer
    <2>2. Sum(call[u].file) = call[u].body /\ file \in [Files -> [status : FileStatus, checksum : Checksum]]
      <3>1. Undeclared(call[u].file) => Sum(call[u].file) = call[u].body
        BY <2>1 DEF SerialInv, CallAgrees
      <3>2. ~Undeclared(call[u].file) => Sum(call[u].file) = call[u].body
        BY <1>12, <2>1, OpenCalls
           DEF Finish, IntegrityInv, HoldsDeclared, DeclaredIntegrity, Transfer, Sum
      <3> QED BY <3>1, <3>2 DEF TypeInv, TypeOK
    <2>3. UNCHANGED file
      <3>1. [file EXCEPT ![call[u].file].checksum = call[u].body] = file
        BY <2>2 DEF Sum
      <3> QED BY <1>12, <3>1 DEF Finish
    <2>4. "reply" \in CallPc
      BY DEF CallPc, OpenPc
    <2>5. Calm
      BY <1>4, <2>1, <2>3, <2>4 DEF SerialInv, CallAgrees
    <2> QED BY <1>1, <2>1, <2>3, <2>5, RowFrame, LoopsFrame
  <1>13. ASSUME NEW u \in Calls, Reply(u) PROVE Calm /\ Tidy /\ Fed
    <2>0. PICK f \in Files : f = call[u].file
      BY <1>13, OpenCalls DEF Reply, Open, OpenPc
    <2>1. /\ Open(u) /\ call[u].pc \in Transfer \ {"put", "fill", "row"} /\ UNCHANGED <<rows, loops>>
          /\ \A v \in Calls : v # u => call'[v] = call[v]
          /\ call'[u].file = f /\ call'[u].body = call[u].body /\ call'[u].pc = "done"
          /\ call'[u].answer = "COMPLETED" => job[f].status = "COMPLETED"
      BY <1>13, <2>0 DEF Reply, Open, OpenPc, Transfer, TypeInv, TypeOK, CallRecord
    <2>2. Undeclared(f) => Sum(f) = call[u].body /\ call[u].body \in Contents
      BY <2>0, <2>1 DEF SerialInv, CallAgrees
    <2>3. Undeclared(f) /\ job[f].status = "COMPLETED" => variant[f] = call[u].body
      BY <2>2 DEF SerialInv, RowAgrees
    <2>4. CallAgrees(u)'
      BY <2>1, <2>2, <2>3, IngestionAssumption DEF CallAgrees, Transfer, Sum
    <2>5. \A g \in Files : Sum(g)' = Sum(g) /\ object'[g] = object[g]
      BY <2>1 DEF Sum
    <2>6. Calm
      BY <1>1, <2>0, <2>1, <2>4, <2>5, CallsFrame
    <2> QED BY <1>1, <2>1, <2>6, RowFrame, LoopsFrame
  <1>14. ASSUME NEW u \in Calls, RequestFails(u) PROVE Calm /\ Tidy /\ Fed
    <2>1. Goto(u, "failed") /\ Open(u) /\ UNCHANGED <<rows, loops>>
      BY <1>14 DEF RequestFails, Open
    <2>2. "failed" \in CallPc /\ "failed" \notin Transfer
      BY DEF CallPc, Transfer
    <2>3. Calm
      BY <1>4, <2>1, <2>2
    <2> QED BY <1>1, <2>1, <2>3, RowFrame, LoopsFrame
  <1>15. ASSUME NEW i \in Instances, ReadFile(i) PROVE Calm /\ Tidy /\ Fed
    <2>1. /\ UNCHANGED <<rows, call, queue>>
          /\ \A k \in Instances : k # i => worker'[k] = worker[k]
          /\ worker[i].pc = "read" /\ worker'[i].file = worker[i].file
          /\ worker'[i].seen = Sum(worker[i].file)
      BY <1>15 DEF ReadFile, Sum, TypeInv, TypeOK, WorkerRecord
    <2>2. Undeclared(worker[i].file) => Kept(worker[i].file)
      BY <2>1 DEF SerialInv, LoopAgrees
    <2>3. \A k \in Instances : LoopAgrees(k)'
      BY <2>1, <2>2 DEF SerialInv, LoopAgrees, Kept, Known, Sum
    <2> QED BY <1>1, <2>1, <2>3, CallsStay, RowFrame
  <1>16. ASSUME NEW i \in Instances, WriteVariants(i) PROVE Calm /\ Tidy /\ Fed
    <2>0. PICK f \in Files : f = worker[i].file
      BY <1>16 DEF WriteVariants, TypeInv, Bound, WorkerBound
    <2>1. /\ UNCHANGED <<file, object, declared, call, queue>> /\ worker[i].pc = "stub"
          /\ \A k \in Instances : worker'[k].pc \in {"read", "stub"} => worker'[k] = worker[k]
          /\ JobUpdate(f, "COMPLETED", "none", 1)
          /\ \A g \in Files : variant'[g] = IF g = f THEN worker[i].seen ELSE variant[g]
      BY <1>16, <2>0 DEF WriteVariants, TypeInv, TypeOK, WorkerRecord
    <2>2. Undeclared(f) => Kept(f) /\ worker[i].seen = Sum(f)
      BY <2>0, <2>1 DEF SerialInv, LoopAgrees
    <2>3. VariantStays
      BY <2>1, <2>2 DEF VariantStays, SerialInv, RowAgrees
    <2>4. RowAgrees(f)'
      BY <2>1, <2>2 DEF SerialInv, RowAgrees, Kept, Sum
    <2>5. \A g \in Files : g # f => job'[g] = job[g]
      BY <2>1 DEF JobUpdate, TypeInv, TypeOK
    <2>6. Tidy
      BY <2>1, <2>4, <2>5, RowFrame
    <2>7. Fed
      BY <2>1 DEF SerialInv, LoopAgrees, Kept, Known, Sum
    <2> QED BY <2>1, <2>3, <2>6, <2>7, CallsStay
  <1>17. ASSUME NEW i \in Instances, StubFails(i) \/ MarkFailed(i) PROVE Calm /\ Tidy /\ Fed
    <2>1. /\ UNCHANGED <<file, variant, object, declared, call, queue>>
          /\ \A k \in Instances : worker'[k].pc \in {"read", "stub"} => worker'[k] = worker[k]
      BY <1>17 DEF StubFails, MarkFailed, TypeInv, TypeOK, WorkerRecord
    <2>2. \A f \in Files : job'[f].status = "COMPLETED" => job[f].status = "COMPLETED"
      <3>1. CASE MarkFailed(i)
        BY <3>1 DEF MarkFailed, JobUpdate, TypeInv, TypeOK
      <3> QED BY <1>17, <3>1 DEF StubFails
    <2>3. Fed
      BY <2>1 DEF SerialInv, LoopAgrees, Kept, Known, Sum
    <2> QED BY <1>1, <2>1, <2>2, <2>3, CallsStay, RowFrame
  <1>18. ASSUME NEW i \in Instances, NextJob(i) PROVE Calm /\ Tidy /\ Fed
    <2>0. PICK u \in Calls : u = worker[i].owner /\ Open(u) /\ call[u].pc = "draining"
      BY <1>18, OpenCalls DEF NextJob, AtWork
    <2>1. UNCHANGED rows /\ queue[i] \in Seq(Files)
      BY <1>18 DEF NextJob, TypeInv, TypeOK
    <2>2. Tidy
      BY <2>1, RowFrame
    <2>3. CASE queue[i] = <<>>
      <3>1. UNCHANGED queue /\ worker' = [worker EXCEPT ![i] = Idle] /\ Goto(u, "finish")
        BY <1>18, <2>0, <2>3 DEF NextJob
      <3>2. "finish" \in CallPc /\ call[u].pc \in Transfer \ {"put", "fill", "row"}
        BY <2>0 DEF CallPc, OpenPc, Transfer
      <3>3. Calm
        BY <1>4, <2>0, <2>1, <3>1, <3>2 DEF SerialInv, CallAgrees
      <3>4. \A k \in Instances : worker'[k].pc \in {"read", "stub"} => worker'[k] = worker[k]
        BY <3>1, IdleType DEF TypeInv, TypeOK
      <3>5. Fed
        BY <2>1, <3>1, <3>4 DEF SerialInv, LoopAgrees, Kept, Known, Sum
      <3> QED BY <2>2, <3>3, <3>5
    <2>4. CASE queue[i] # <<>>
      <3>1. /\ UNCHANGED call /\ queue'[i] = Tail(queue[i]) /\ worker'[i] = Take(queue[i], u)
            /\ \A k \in Instances : k # i => worker'[k] = worker[k] /\ queue'[k] = queue[k]
        BY <1>18, <2>0, <2>4 DEF NextJob, TypeInv, TypeOK
      <3>2. Take(queue[i], u).pc = "read" /\ Take(queue[i], u).file = Head(queue[i])
        BY DEF Take, Idle
      <3>3. Head(queue[i]) = queue[i][1] /\ 1 \in DOMAIN queue[i]
        BY <2>1, <2>4
      <3>4. \A k \in DOMAIN Tail(queue[i]) : k + 1 \in DOMAIN queue[i]
                                            /\ Tail(queue[i])[k] = queue[i][k + 1]
        BY <2>1, <2>4
      <3>5. LoopAgrees(i)'
        BY <2>1, <3>1, <3>2, <3>3, <3>4 DEF SerialInv, LoopAgrees, Kept, Known, Sum
      <3>6. ASSUME NEW k \in Instances, k # i PROVE LoopAgrees(k)'
        BY <2>1, <3>1, <3>6 DEF SerialInv, LoopAgrees, Kept, Known, Sum
      <3> QED BY <1>1, <2>1, <2>2, <3>1, <3>5, <3>6, CallsStay
    <2> QED BY <2>3, <2>4
  <1>19. ASSUME NEW i \in Instances, WorkerDies(i) PROVE Calm /\ Tidy /\ Fed
    <2>0. PICK u \in Calls : u = worker[i].owner /\ Open(u)
      BY <1>19, OpenCalls DEF WorkerDies, AtWork
    <2>1. /\ UNCHANGED <<rows, queue>> /\ Goto(u, "failed")
          /\ \A k \in Instances : worker'[k].pc \in {"read", "stub"} => worker'[k] = worker[k]
      BY <1>19, <2>0 DEF WorkerDies, TypeInv, TypeOK, WorkerRecord
    <2>2. "failed" \in CallPc /\ "failed" \notin Transfer
      BY DEF CallPc, Transfer
    <2>3. Calm
      BY <1>4, <2>0, <2>1, <2>2
    <2>4. Fed
      BY <2>1 DEF SerialInv, LoopAgrees, Kept, Known, Sum
    <2> QED BY <2>1, <2>3, <2>4, RowFrame
  <1>20. ASSUME NEW i \in Instances, Crash(i) PROVE Calm /\ Tidy /\ Fed
    <2>1. /\ UNCHANGED rows
          /\ \A k \in Instances : worker'[k].pc \in {"read", "stub"} => worker'[k] = worker[k]
          /\ \A k \in Instances : queue'[k] = queue[k] \/ queue'[k] = <<>>
      BY <1>20, IdleType DEF Crash, TypeInv, TypeOK
    <2>2. \A v \in Calls : \/ call'[v] = call[v]
                           \/ /\ call'[v].file = call[v].file /\ Open(v)
                              /\ call'[v].pc = "lost" /\ call'[v].answer = call[v].answer
      BY <1>20 DEF Crash, TypeInv, TypeOK, CallRecord
    <2>3. OneSender'
      BY <2>1, <2>2 DEF SerialInv, OneSender, Open, OpenPc
    <2>4. ASSUME NEW v \in Calls PROVE CallAgrees(v)'
      <3>1. Open(v) => call[v].answer # "COMPLETED"
        BY DEF SerialInv, CallAgrees, Open, OpenPc
      <3> QED BY <2>1, <2>2, <3>1 DEF SerialInv, CallAgrees, Sum, Transfer
    <2>5. Fed
      BY <2>1 DEF SerialInv, LoopAgrees, Kept, Known, Sum
    <2> QED BY <2>1, <2>3, <2>4, <2>5, RowFrame
  <1>21. ASSUME UNCHANGED vars PROVE Calm /\ Tidy /\ Fed
    <2>1. UNCHANGED <<rows, call, queue, worker>>
      BY <1>21 DEF vars
    <2>2. Calm
      BY <1>1, <2>1, CallsStay
    <2>3. Tidy
      BY <2>1, RowFrame
    <2>4. Fed
      BY <1>1, <2>1, LoopsFrame
    <2> QED BY <2>2, <2>3, <2>4
  <1> HIDE DEF Calm, Tidy, Fed
  <1>22. ASSUME NEW u \in Calls, Arrive(u) PROVE Calm /\ Tidy /\ Fed
    BY <1>2, <1>3, <1>22 DEF Arrive, RequestUpload, IngestFile, CallKind, Checksum
  <1>23. ASSUME NEW u \in Calls, Advance(u) PROVE Calm /\ Tidy /\ Fed
    BY <1>5, <1>6, <1>7, <1>8, <1>9, <1>10, <1>11, <1>12, <1>13, <1>23 DEF Advance, Upload
  <1>24. ASSUME NEW i \in Instances, Work(i) PROVE Calm /\ Tidy /\ Fed
    BY <1>15, <1>16, <1>17, <1>18, <1>19, <1>24 DEF Work
  <1>25. Calm /\ Tidy /\ Fed
    BY <1>8, <1>14, <1>20, <1>21, <1>22, <1>23, <1>24 DEF Next, Upload
  <1> QED BY <1>0, <1>25 DEF SerialInv, Calm, Tidy, Fed

LEMMA SerialReachable == ASSUME SerialClients
                         PROVE  SafeSpec => [](TypeInv /\ LoopInv /\ IntegrityInv /\ SerialInv)
  <1> DEFINE Inv == TypeInv /\ LoopInv /\ IntegrityInv /\ SerialInv
  <1>1. Init => Inv
    BY InitTypeInv, InitLoop, InitIntegrity, InitSerial
  <1>2. Inv /\ [Next]_vars => Inv'
    BY TypeInvStep, LoopStep, IntegrityStep, SerialStep
  <1> QED BY <1>1, <1>2, PTL DEF SafeSpec

(***************************************************************************)
(* The answers.  A client is told COMPLETED by a row it reads after its    *)
(* own transfer; for a file with a declared checksum that is enough,       *)
(* however calls overlap, and for any file where clients take turns.       *)
(***************************************************************************)
AnswerInv ==
    /\ JobKnown
    /\ \A f \in Files : declared[f] # NoContent /\ job[f].status = "COMPLETED" =>
         variant[f] = declared[f]
    /\ \A u \in Calls : call[u].answer = "COMPLETED" =>
         /\ call[u].pc = "done"
         /\ declared[call[u].file] # NoContent =>
              variant[call[u].file] = declared[call[u].file]
              /\ call[u].body = declared[call[u].file]

\* What a step does to declarations, variants, outcomes and answers, as far as they matter here.
DeclaredStays ==
    \A f \in Files : Known(f) =>
        /\ declared'[f] = declared[f]
        /\ variant[f] = declared[f] /\ declared[f] # NoContent => variant'[f] = declared[f]

OutcomesHold ==
    \A f \in Files : job'[f].status = "COMPLETED" =>
        job[f].status = "COMPLETED" \/ variant'[f] = declared'[f] \/ declared'[f] = NoContent

AnswersStay == \A v \in Calls : call'[v].answer = "COMPLETED" => call'[v] = call[v]

LEMMA AnswerFrame ==
  ASSUME TypeInv, IntegrityInv, AnswerInv, JobKnown', DeclaredStays, OutcomesHold, AnswersStay
  PROVE  AnswerInv'
  <1>1. ASSUME NEW f \in Files, declared'[f] # NoContent, job'[f].status = "COMPLETED"
        PROVE  variant'[f] = declared'[f]
    <2>1. job[f].status = "COMPLETED" => Known(f)
      BY DEF AnswerInv, JobKnown
    <2> QED BY <1>1, <2>1 DEF AnswerInv, DeclaredStays, OutcomesHold
  <1>2. ASSUME NEW u \in Calls, call'[u].answer = "COMPLETED"
        PROVE  /\ call'[u].pc = "done"
               /\ declared'[call'[u].file] # NoContent =>
                    variant'[call'[u].file] = declared'[call'[u].file]
                    /\ call'[u].body = declared'[call'[u].file]
    <2>1. call'[u] = call[u]
      BY <1>2 DEF AnswersStay
    <2>2. call[u].pc = "done"
      BY <1>2, <2>1 DEF AnswerInv
    <2>3. call[u].file \in Files /\ Known(call[u].file)
      BY <2>2 DEF TypeInv, Bound, CallBound, Used, IntegrityInv, OnlyKnown
    <2> QED BY <1>2, <2>1, <2>2, <2>3 DEF AnswerInv, DeclaredStays
  <1> QED BY <1>1, <1>2 DEF AnswerInv

LEMMA AnswerStep ==
  TypeInv /\ LoopInv /\ IntegrityInv /\ AnswerInv /\ [Next]_vars => AnswerInv'
  <1> SUFFICES ASSUME TypeInv, LoopInv, IntegrityInv, AnswerInv, [Next]_vars PROVE AnswerInv'
    OBVIOUS
  <1> USE DEF rows, loops
  <1>0. JobKnown'
    BY JobKnownStep DEF AnswerInv
  <1>1. ASSUME UNCHANGED <<declared, variant>> PROVE DeclaredStays
    BY <1>1 DEF DeclaredStays
  <1>2. ASSUME \A f \in Files : job'[f].status = "COMPLETED" => job[f].status = "COMPLETED"
        PROVE  OutcomesHold
    BY <1>2 DEF OutcomesHold
  <1>3. ASSUME NEW u \in Calls, NEW pc, Goto(u, pc), Open(u) PROVE AnswersStay
    <2>1. call[u].answer # "COMPLETED"
      BY <1>3 DEF AnswerInv, Open, OpenPc
    <2>2. call'[u].answer = call[u].answer /\ \A v \in Calls : v # u => call'[v] = call[v]
      BY <1>3 DEF Goto, TypeInv, TypeOK, CallRecord
    <2> QED BY <2>1, <2>2 DEF AnswersStay
  <1>4. UNCHANGED call => AnswersStay
    BY DEF AnswersStay
  <1>5. ASSUME NEW u \in Calls, NEW i \in Instances, NEW f \in Files, NEW kind, NEW sum, NEW body,
               CreateFile(u, i, f, kind, sum, body)
        PROVE  AnswerInv'
    <2>1. /\ ~Known(f) /\ declared' = [declared EXCEPT ![f] = sum] /\ UNCHANGED <<variant, job>>
      BY <1>5 DEF CreateFile, Known
    <2>2. DeclaredStays
      BY <2>1 DEF DeclaredStays, TypeInv, TypeOK
    <2>3. AnswersStay
      BY <1>5 DEF CreateFile, AnswersStay, Unused, TypeInv, TypeOK
    <2> QED BY <1>0, <1>2, <2>1, <2>2, <2>3, AnswerFrame
  <1>6. ASSUME NEW u \in Calls, NEW i \in Instances, NEW f \in Files, NEW body, Receive(u, i, f, body)
        PROVE  AnswerInv'
    <2>1. AnswersStay
      BY <1>6 DEF Receive, AnswersStay, Unused, TypeInv, TypeOK
    <2> QED BY <1>0, <1>1, <1>2, <1>6, <2>1, AnswerFrame DEF Receive
  <1>7. ASSUME NEW u \in Calls, CreateJob(u) PROVE AnswerInv'
    <2>1. /\ UNCHANGED <<declared, variant>> /\ Open(u)
          /\ \A f \in Files : job'[f].status = "COMPLETED" => job[f].status = "COMPLETED"
      BY <1>7 DEF CreateJob, Open, OpenPc, TypeInv, TypeOK
    <2>2. PICK pc : Goto(u, pc)
      BY <1>7 DEF CreateJob
    <2> QED BY <1>0, <1>1, <1>2, <1>3, <2>1, <2>2, AnswerFrame
  <1>8. ASSUME NEW u \in Calls, FlagJob(u) \/ MarkRunning(u) PROVE AnswerInv'
    <2>1. UNCHANGED <<declared, variant>> /\ Open(u)
      BY <1>8 DEF FlagJob, MarkRunning, Open, OpenPc
    <2>2. PICK pc : Goto(u, pc)
      BY <1>8 DEF FlagJob, MarkRunning
    <2>3. \A f \in Files : job'[f].status = "COMPLETED" => job[f].status = "COMPLETED"
      <3>1. CASE FlagJob(u)
        BY <3>1 DEF FlagJob, JobUpdate, TypeInv, TypeOK
      <3>2. CASE MarkRunning(u)
        BY <3>2 DEF MarkRunning, JobUpdate, TypeInv, TypeOK
      <3> QED BY <1>8, <3>1, <3>2
    <2> QED BY <1>0, <1>1, <1>2, <1>3, <2>1, <2>2, <2>3, AnswerFrame
  <1>9. ASSUME NEW u \in Calls,
               FlagFile(u) \/ Upload(u) \/ UpdateRow(u) \/ Enqueue(u) \/ Finish(u) \/ RequestFails(u)
        PROVE  AnswerInv'
    <2>1. UNCHANGED <<declared, variant, job>> /\ Open(u)
      BY <1>9, UploadStep DEF FlagFile, UpdateRow, Enqueue, Finish, RequestFails, Open, OpenPc
    <2>2. PICK pc : Goto(u, pc)
      BY <1>9, UploadStep DEF FlagFile, UpdateRow, Enqueue, Finish, RequestFails
    <2> QED BY <1>0, <1>1, <1>2, <1>3, <2>1, <2>2, AnswerFrame
  <1>10. ASSUME NEW u \in Calls, Reply(u) PROVE AnswerInv'
    <2>0. PICK f \in Files : f = call[u].file
      BY <1>10, OpenCalls DEF Reply, Open, OpenPc
    <2>1. /\ UNCHANGED rows /\ call[u].pc \in Transfer
          /\ \A v \in Calls : v # u => call'[v] = call[v]
          /\ call'[u].file = f /\ call'[u].body = call[u].body /\ call'[u].pc = "done"
          /\ call'[u].answer = "COMPLETED" => job[f].status = "COMPLETED"
      BY <1>10, <2>0 DEF Reply, Transfer, TypeInv, TypeOK, CallRecord
    <2>2. declared[f] \in {NoContent, call[u].body}
      BY <2>0, <2>1 DEF IntegrityInv, HoldsDeclared
    <2> QED BY <1>0, <2>1, <2>2 DEF AnswerInv
  <1>11. ASSUME NEW i \in Instances, WriteVariants(i) PROVE AnswerInv'
    <2>0. PICK f \in Files : f = worker[i].file
      BY <1>11 DEF WriteVariants, TypeInv, Bound, WorkerBound
    <2>1. /\ UNCHANGED <<declared, call>> /\ JobUpdate(f, "COMPLETED", "none", 1)
          /\ \A g \in Files : variant'[g] = IF g = f THEN worker[i].seen ELSE variant[g]
          /\ declared[f] \in {NoContent, worker[i].seen}
      BY <1>11, <2>0 DEF WriteVariants, TypeInv, TypeOK, IntegrityInv, HoldsDeclared
    <2>2. \A g \in Files : g # f => job'[g] = job[g]
      BY <2>1 DEF JobUpdate, TypeInv, TypeOK
    <2>3. DeclaredStays /\ OutcomesHold
      BY <2>1, <2>2 DEF DeclaredStays, OutcomesHold
    <2> QED BY <1>0, <1>4, <2>1, <2>3, AnswerFrame
  <1>12. ASSUME NEW i \in Instances, ReadFile(i) \/ StubFails(i) \/ MarkFailed(i) PROVE AnswerInv'
    <2>1. UNCHANGED <<declared, variant, call>>
      BY <1>12 DEF ReadFile, StubFails, MarkFailed
    <2>2. \A f \in Files : job'[f].status = "COMPLETED" => job[f].status = "COMPLETED"
      <3>1. CASE MarkFailed(i)
        BY <3>1 DEF MarkFailed, JobUpdate, TypeInv, TypeOK
      <3> QED BY <1>12, <3>1 DEF ReadFile, StubFails
    <2> QED BY <1>0, <1>1, <1>2, <1>4, <2>1, <2>2, AnswerFrame
  <1>13. ASSUME NEW i \in Instances, NextJob(i) \/ WorkerDies(i) PROVE AnswerInv'
    <2>0. PICK u \in Calls : u = worker[i].owner /\ Open(u)
      BY <1>13, OpenCalls DEF NextJob, WorkerDies, AtWork
    <2>1. UNCHANGED rows /\ (UNCHANGED call \/ \E pc : Goto(u, pc))
      BY <1>13, <2>0 DEF NextJob, WorkerDies
    <2>2. AnswersStay
      BY <1>3, <1>4, <2>0, <2>1
    <2> QED BY <1>0, <1>1, <1>2, <2>1, <2>2, AnswerFrame
  <1>14. ASSUME NEW i \in Instances, Crash(i) PROVE AnswerInv'
    <2>1. \A v \in Calls : \/ call'[v] = call[v]
                           \/ Open(v) /\ call'[v].answer = call[v].answer
      BY <1>14 DEF Crash, TypeInv, TypeOK, CallRecord
    <2>2. AnswersStay
      BY <2>1 DEF AnswersStay, AnswerInv, Open, OpenPc
    <2> QED BY <1>0, <1>1, <1>2, <1>14, <2>2, AnswerFrame DEF Crash
  <1>15. CASE UNCHANGED vars
    <2>1. UNCHANGED <<declared, variant, job, call>>
      BY <1>15 DEF vars
    <2> QED BY <1>0, <1>1, <1>2, <1>4, <2>1, AnswerFrame
  <1>16. ASSUME NEW u \in Calls, Arrive(u) PROVE AnswerInv'
    BY <1>5, <1>6, <1>16 DEF Arrive, RequestUpload, IngestFile
  <1>17. ASSUME NEW u \in Calls, Advance(u) PROVE AnswerInv'
    BY <1>7, <1>8, <1>9, <1>10, <1>17 DEF Advance, Upload
  <1>18. ASSUME NEW i \in Instances, Work(i) PROVE AnswerInv'
    BY <1>11, <1>12, <1>13, <1>18 DEF Work
  <1> QED BY <1>9, <1>14, <1>15, <1>16, <1>17, <1>18 DEF Next, Upload

\* A client told COMPLETED finds the variant of what it sent: always for a file registered
\* with a checksum, and for any file where clients take turns.
THEOREM AnswersAreTrue == SafeSpec => []CompletedAnswerIsTrue
  <1> DEFINE Inv == TypeInv /\ LoopInv /\ IntegrityInv /\ AnswerInv
  <1>1. Init => Inv
    <2>1. Init => AnswerInv
      BY DEF Init, Unused, AnswerInv, JobKnown
    <2> QED BY <2>1, InitTypeInv, InitLoop, InitIntegrity
  <1>2. Inv /\ [Next]_vars => Inv'
    BY TypeInvStep, LoopStep, IntegrityStep, AnswerStep
  <1>3. CASE SerialClients
    <2>1. Inv /\ SerialInv => CompletedAnswerIsTrue
      BY DEF SerialInv, CallAgrees, AnswerInv, TypeInv, TypeOK, CallRecord, CompletedAnswerIsTrue
    <2> QED BY <1>1, <1>2, <1>3, <2>1, SerialReachable, PTL DEF SafeSpec
  <1>4. CASE ~SerialClients
    <2>1. Inv => CompletedAnswerIsTrue
      BY <1>4 DEF AnswerInv, CompletedAnswerIsTrue, Told
    <2> QED BY <1>1, <1>2, <2>1, PTL DEF SafeSpec
  <1> QED BY <1>3, <1>4

(***************************************************************************)
(* The stored objects.  Whoever opened an object last has filled it, or is *)
(* still writing to it, or broke off; and who is past the upload, or a row *)
(* that says STORED, has an object to speak of.                            *)
(***************************************************************************)
Opened(f) ==
    object[f].of # {} =>
        LET by == object[f].by IN
        /\ by \in Calls /\ Used(by) /\ call[by].file = f
        /\ object[f].whole \/ call[by].pc \in {"fill", "failed", "lost"}

Uploaded(u) == call[u].pc \in Transfer \ {"put"} => object[call[u].file].of # {}

ObjectInv ==
    /\ \A f \in Files : Opened(f) /\ (file[f].status = "STORED" => object[f].of # {})
    /\ \A u \in Calls : Uploaded(u)

LEMMA InitObject == Init => ObjectInv
  BY DEF Init, NoObject, Unused, ObjectInv, Opened, Uploaded, Transfer

\* Steps that leave the objects alone, and of whose calls none comes into an upload.
LEMMA ObjectFrame ==
  ASSUME TypeInv, ObjectInv, UNCHANGED object,
         \A v \in Calls : /\ Used(v) => call'[v].file = call[v].file
                          /\ call[v].pc \in {"failed", "lost"} => call'[v].pc = call[v].pc
                          /\ call[v].pc = "fill" => call'[v].pc \in {"fill", "failed", "lost"}
                          /\ Used(v) => Used(v)'
                          /\ call'[v].pc \in Transfer \ {"put"} => call[v].pc \in Transfer \ {"put"},
         \A f \in Files : file'[f].status = "STORED" => file[f].status = "STORED" \/ object[f].of # {}
  PROVE  ObjectInv'
  <1>1. ASSUME NEW f \in Files PROVE Opened(f)'
    BY DEF ObjectInv, Opened
  <1>2. ASSUME NEW u \in Calls PROVE Uploaded(u)'
    <2>1. call[u].pc \in Transfer => Used(u)
      BY DEF Transfer, Used
    <2> QED BY <2>1 DEF ObjectInv, Uploaded
  <1>3. \A f \in Files : file'[f].status = "STORED" => object'[f].of # {}
    BY DEF ObjectInv
  <1> QED BY <1>1, <1>2, <1>3 DEF ObjectInv

LEMMA ObjectStep == TypeInv /\ LoopInv /\ ObjectInv /\ [Next]_vars => ObjectInv'
  <1> SUFFICES ASSUME TypeInv, LoopInv, ObjectInv, [Next]_vars PROVE ObjectInv'
    OBVIOUS
  <1> USE DEF rows, loops
  <1>1. ASSUME NEW u \in Calls, NEW i \in Instances, NEW f \in Files, NEW kind, NEW sum, NEW body,
               CreateFile(u, i, f, kind, sum, body)
        PROVE  ObjectInv'
    <2>1. /\ \A v \in Calls : v # u => call'[v] = call[v]
          /\ call[u].pc = "unused" /\ call'[u].pc = "createJob" /\ UNCHANGED object
      BY <1>1, UnusedType DEF CreateFile, TypeInv, TypeOK, CallRecord
    <2>2. \A g \in Files : file'[g].status = "STORED" => file[g].status = "STORED"
      BY <1>1 DEF CreateFile, TypeInv, TypeOK
    <2> QED BY <2>1, <2>2, ObjectFrame DEF Used, Transfer
  <1>2. ASSUME NEW u \in Calls, NEW i \in Instances, NEW f \in Files, NEW body, Receive(u, i, f, body)
        PROVE  ObjectInv'
    <2>1. /\ \A v \in Calls : v # u => call'[v] = call[v]
          /\ call[u].pc = "unused" /\ call'[u].pc \in {"put", "flagFile"}
          /\ UNCHANGED <<object, file>>
      BY <1>2, UnusedType DEF Receive, TypeInv, TypeOK, CallRecord
    <2> QED BY <2>1, ObjectFrame DEF Used, Transfer
  <1>3. ASSUME NEW u \in Calls, NEW pc, Goto(u, pc), Open(u), UNCHANGED object, pc # "unused",
               call[u].pc = "fill" => pc = "failed",
               pc \in Transfer \ {"put"} => call[u].pc \in Transfer \ {"put"},
               \A f \in Files : file'[f].status = "STORED" =>
                                  file[f].status = "STORED" \/ object[f].of # {}
        PROVE  ObjectInv'
    <2>1. \A v \in Calls : call[v].pc \in {"failed", "lost"} => v # u
      BY <1>3 DEF Open, OpenPc
    <2> QED BY <1>3, <2>1, CallGoto, ObjectFrame DEF Used
  <1>4. ASSUME NEW u \in Calls,
               CreateJob(u) \/ FlagFile(u) \/ FlagJob(u) \/ UpdateRow(u) \/ MarkRunning(u)
                 \/ Enqueue(u) \/ Finish(u) \/ RequestFails(u)
        PROVE  ObjectInv'
    <2>1. PICK pc : /\ Goto(u, pc) /\ pc # "unused" /\ Open(u) /\ UNCHANGED object
                    /\ (call[u].pc = "fill" => pc = "failed")
                    /\ (pc \in Transfer \ {"put"} => call[u].pc \in Transfer \ {"put"})
      BY <1>4 DEF CreateJob, FlagFile, FlagJob, UpdateRow, MarkRunning, Enqueue, Finish, RequestFails,
                  Open, OpenPc, Transfer
    <2>2. ASSUME NEW f \in Files, file'[f].status = "STORED"
          PROVE  file[f].status = "STORED" \/ object[f].of # {}
      <3>1. CASE UNCHANGED file
        BY <2>2, <3>1
      <3>2. CASE FlagFile(u) \/ Finish(u)
        <4>1. PICK g, c : file' \in {file, [file EXCEPT ![g].status = "CHECKSUM_FAILED"],
                                     [file EXCEPT ![g].checksum = c]}
          BY <3>2 DEF FlagFile, Finish
        <4>2. file \in [Files -> [status : FileStatus, checksum : Checksum]]
          BY DEF TypeInv, TypeOK
        <4> QED BY <2>2, <4>1, <4>2
      <3>3. CASE UpdateRow(u)
        <4>1. object[call[u].file].of # {}
          BY <3>3 DEF UpdateRow, ObjectInv, Uploaded, Transfer
        <4> QED BY <2>2, <3>3, <4>1 DEF UpdateRow, TypeInv, TypeOK
      <3> QED BY <1>4, <3>1, <3>2, <3>3
              DEF CreateJob, FlagJob, MarkRunning, Enqueue, RequestFails
    <2> QED BY <1>3, <2>1, <2>2
  <1>5. ASSUME NEW u \in Calls, Upload(u) PROVE ObjectInv'
    <2>0. PICK f \in Files : f = call[u].file
      BY <1>5, UploadStep
    <2>1. /\ call[u].pc \in {"put", "fill"} /\ Used(u) /\ UNCHANGED file
          /\ \A g \in Files : g # f => object'[g] = object[g]
      BY <1>5, <2>0, UploadStep
    <2>2. PICK pc \in {"fill", "row", "failed"} : Goto(u, pc)
      BY <1>5, UploadStep
    <2>3. \A v \in Calls : /\ call'[v].pc = IF v = u THEN pc ELSE call[v].pc
                           /\ call'[v].file = call[v].file
      BY <2>2, CallGoto
    <2>4. object'[f].of # {} /\ Opened(f)'
      <3>1. CASE /\ call[u].pc = "fill" /\ object'[f].of = object[f].of /\ object'[f].by = object[f].by
                 /\ (object[f].whole \/ object[f].by = u => object'[f].whole)
        <4>1. object[f].of # {} /\ Opened(f)
          BY <2>0, <3>1 DEF ObjectInv, Uploaded, Transfer
        <4> QED BY <2>2, <2>3, <3>1, <4>1 DEF Opened, Used
      <3>2. CASE /\ object'[f].by = u /\ call[u].body \in object'[f].of
                 /\ (object'[f].whole \/ Goto(u, "fill"))
        <4>1. Goto(u, "fill") => call'[u].pc = "fill"
          BY CallGoto
        <4> QED BY <2>0, <2>2, <2>3, <3>2, <4>1 DEF Opened, Used
      <3> QED BY <1>5, <2>0, <3>1, <3>2, UploadOf
    <2>5. ASSUME NEW g \in Files, g # f PROVE Opened(g)'
      <3>1. Opened(g) /\ object'[g] = object[g]
        BY <2>1, <2>5 DEF ObjectInv
      <3>2. object[g].by \in Calls /\ call[object[g].by].file = g => object[g].by # u
        BY <2>0, <2>5
      <3> QED BY <2>3, <3>1, <3>2 DEF Opened, Used
    <2>6. ASSUME NEW v \in Calls PROVE Uploaded(v)'
      <3>1. CASE call[v].file = f
        BY <2>3, <2>4, <3>1 DEF Uploaded
      <3>2. CASE call[v].file # f
        <4>1. v # u /\ (call[v].pc \in Transfer => call[v].file \in Files) /\ Uploaded(v)
          BY <2>0, <3>2 DEF ObjectInv, TypeInv, Bound, CallBound, Used, Transfer
        <4> QED BY <2>1, <2>3, <3>2, <4>1 DEF Uploaded
      <3> QED BY <3>1, <3>2
    <2>7. \A g \in Files : file'[g].status = "STORED" => object'[g].of # {}
      BY <2>1, <2>4 DEF ObjectInv
    <2> QED BY <2>4, <2>5, <2>6, <2>7 DEF ObjectInv
  <1>6. ASSUME NEW u \in Calls, Reply(u) PROVE ObjectInv'
    <2>1. \A v \in Calls : /\ call'[v].pc = IF v = u THEN "done" ELSE call[v].pc
                           /\ call'[v].file = call[v].file
      BY <1>6 DEF Reply, TypeInv, TypeOK, CallRecord
    <2>2. call[u].pc = "reply" /\ UNCHANGED <<object, file>>
      BY <1>6 DEF Reply
    <2> QED BY <2>1, <2>2, ObjectFrame DEF Used, Transfer
  <1>7. ASSUME NEW i \in Instances,
               ReadFile(i) \/ WriteVariants(i) \/ StubFails(i) \/ MarkFailed(i)
        PROVE  ObjectInv'
    <2>1. UNCHANGED <<file, object, call>>
      BY <1>7 DEF ReadFile, WriteVariants, StubFails, MarkFailed
    <2> QED BY <2>1, ObjectFrame DEF Used
  <1>8. ASSUME NEW i \in Instances, NextJob(i) \/ WorkerDies(i) PROVE ObjectInv'
    <2>0. PICK u \in Calls : u = worker[i].owner /\ Open(u) /\ call[u].pc = "draining"
      BY <1>8, OpenCalls DEF NextJob, WorkerDies, AtWork
    <2>1. UNCHANGED <<file, object>> /\ (UNCHANGED call \/ \E pc \in {"finish", "failed"} : Goto(u, pc))
      BY <1>8, <2>0 DEF NextJob, WorkerDies
    <2>2. CASE UNCHANGED call
      BY <2>1, <2>2, ObjectFrame DEF Used
    <2>3. CASE \E pc \in {"finish", "failed"} : Goto(u, pc)
      BY <1>3, <2>0, <2>1, <2>3 DEF Transfer
    <2> QED BY <2>1, <2>2, <2>3
  <1>9. ASSUME NEW i \in Instances, Crash(i) PROVE ObjectInv'
    <2>1. \A v \in Calls : \/ call'[v] = call[v]
                           \/ Open(v) /\ call'[v].pc = "lost" /\ call'[v].file = call[v].file
      BY <1>9 DEF Crash, TypeInv, TypeOK, CallRecord
    <2>2. UNCHANGED <<file, object>>
      BY <1>9 DEF Crash
    <2> QED BY <2>1, <2>2, ObjectFrame DEF Used, Open, OpenPc, Transfer
  <1>10. CASE UNCHANGED vars
    <2>1. UNCHANGED <<file, object, call>>
      BY <1>10 DEF vars
    <2> QED BY <2>1, ObjectFrame DEF Used
  <1>11. ASSUME NEW u \in Calls, Arrive(u) PROVE ObjectInv'
    BY <1>1, <1>2, <1>11 DEF Arrive, RequestUpload, IngestFile
  <1>12. ASSUME NEW u \in Calls, Advance(u) PROVE ObjectInv'
    BY <1>4, <1>5, <1>6, <1>12 DEF Advance, Upload
  <1> QED BY <1>4, <1>5, <1>7, <1>8, <1>9, <1>10, <1>11, <1>12 DEF Next, Upload, Work

LEMMA ObjectReachable ==
  SafeSpec => [](TypeInv /\ LoopInv /\ IntegrityInv /\ AnswerInv /\ ObjectInv)
  <1> DEFINE Inv == TypeInv /\ LoopInv /\ IntegrityInv /\ AnswerInv /\ ObjectInv
  <1>1. Init => Inv
    <2>1. Init => AnswerInv
      BY DEF Init, Unused, AnswerInv, JobKnown
    <2> QED BY <2>1, InitTypeInv, InitLoop, InitIntegrity, InitObject
  <1>2. Inv /\ [Next]_vars => Inv'
    BY TypeInvStep, LoopStep, IntegrityStep, AnswerStep, ObjectStep
  <1> QED BY <1>1, <1>2, PTL DEF SafeSpec

\* An object that is short of bytes has been left so by the call that wrote it last.
LEMMA WholeOrBrokenOff ==
  ASSUME ObjectInv, NEW f \in Files, Quiet(f), file[f].status = "STORED"
  PROVE  object[f].of # {} /\ (object[f].whole \/ BrokenOff(f))
  <1>1. object[f].of # {} /\ Opened(f)
    BY DEF ObjectInv
  <1> QED BY <1>1 DEF Opened, Quiet, BrokenOff, Open, OpenPc

\* Row, object and variant of a file agree whenever no call is open on it, whatever failed
\* or was killed in between, and the object is whole unless the last call to write it
\* broke off: for files with a declared checksum however calls overlap, for the others
\* where clients take turns.
THEOREM SettledFiles == SafeSpec => []SettledFileAgrees
  <1> DEFINE Declared == TypeInv /\ LoopInv /\ IntegrityInv /\ AnswerInv /\ ObjectInv
  <1>1. ASSUME Declared, NEW f \in Files, Quiet(f), declared[f] # NoContent
        PROVE  /\ file[f].status = "STORED" => /\ object[f].of = {file[f].checksum}
                                               /\ object[f].whole \/ BrokenOff(f)
               /\ job[f].status = "COMPLETED" /\ ~Handled(f) => variant[f] = file[f].checksum
    BY <1>1, WholeOrBrokenOff DEF IntegrityInv, DeclaredIntegrity, AnswerInv
  <1>2. CASE SerialClients
    <2>1. ASSUME Declared, SerialInv, NEW f \in Files, Quiet(f), declared[f] = NoContent
          PROVE  /\ file[f].status = "STORED" => /\ object[f].of = {file[f].checksum}
                                                 /\ object[f].whole \/ BrokenOff(f)
                 /\ job[f].status = "COMPLETED" /\ ~Handled(f) => variant[f] = file[f].checksum
      BY <2>1, WholeOrBrokenOff DEF SerialInv, RowAgrees, Sum
    <2>2. Declared /\ SerialInv => SettledFileAgrees
      BY <1>1, <2>1 DEF SettledFileAgrees
    <2> QED BY <1>2, <2>2, SerialReachable, ObjectReachable, PTL
  <1>3. CASE ~SerialClients
    <2>1. Declared => SettledFileAgrees
      BY <1>1, <1>3 DEF SettledFileAgrees, Told
    <2> QED BY <2>1, ObjectReachable, PTL
  <1> QED BY <1>2, <1>3

\* What an object of a recorded checksum holds is never replaced by anything else, however
\* calls overlap on files with a declared checksum, and where clients take turns on the others.
THEOREM StoredObjectStays == SafeSpec => OriginalImmutable
  <1> DEFINE Kind(f) == file[f].checksum # NoContent /\ object[f].of # {} => object'[f].of = object[f].of
             Declared == TypeInv /\ LoopInv /\ IntegrityInv /\ AnswerInv /\ ObjectInv
  <1>0. ASSUME NEW A, NEW B, NEW x, A # {}, B # {}, A \subseteq {x}, B \subseteq {x} PROVE A = B
    BY <1>0
  <1>1. ASSUME Declared, [Next]_vars, NEW f \in Files,
               \A u \in Calls : Upload(u) /\ f = call[u].file => Kind(f)
        PROVE  Kind(f)
    <2>1. CASE UNCHANGED object
      BY <2>1
    <2>2. ASSUME NEW u \in Calls, Upload(u), f # call[u].file PROVE Kind(f)
      BY <1>1, <2>2, UploadStep
    <2>3. ASSUME NEW u \in Calls, Arrive(u) \/ Advance(u) \/ RequestFails(u), ~Upload(u)
          PROVE  UNCHANGED object
      BY <2>3 DEF Arrive, RequestUpload, IngestFile, CreateFile, Receive, Advance, Upload, CreateJob,
                  FlagFile, FlagJob, UpdateRow, MarkRunning, Enqueue, Finish, Reply, RequestFails, rows
    <2>4. ASSUME NEW i \in Instances, Work(i) \/ Crash(i) PROVE UNCHANGED object
      BY <2>4 DEF Work, ReadFile, WriteVariants, StubFails, MarkFailed, NextJob, WorkerDies, Crash, rows
    <2>5. UNCHANGED vars => UNCHANGED object
      BY DEF vars, rows
    <2> HIDE DEF Kind
    <2> QED BY <1>1, <2>1, <2>2, <2>3, <2>4, <2>5 DEF Next, Upload
  <1>2. ASSUME Declared, [Next]_vars, NEW f \in Files, declared[f] # NoContent
        PROVE  Kind(f)
    <2>1. ASSUME NEW u \in Calls, Upload(u), f = call[u].file PROVE Kind(f)
      <3>1. UNCHANGED declared /\ IntegrityInv' /\ ObjectInv'
        BY <1>2, <2>1, UploadStep, IntegrityStep, ObjectStep
      <3>2. object'[f].of # {}
        BY <1>2, <2>1, UploadOf DEF ObjectInv, Uploaded, Transfer
      <3>3. object'[f].of \subseteq {declared[f]} /\ object[f].of \subseteq {declared[f]}
        BY <1>2, <3>1 DEF IntegrityInv, DeclaredIntegrity
      <3> QED BY <1>0, <3>2, <3>3
    <2> HIDE DEF Kind
    <2> QED BY <1>1, <1>2, <2>1
  <1>3. ASSUME SerialClients, Declared, SerialInv, [Next]_vars, NEW f \in Files, declared[f] = NoContent
        PROVE  Kind(f)
    <2>1. ASSUME NEW u \in Calls, Upload(u), f = call[u].file PROVE Kind(f)
      <3>1. SerialInv' /\ UNCHANGED <<file, declared>>
        BY <1>3, <2>1, SerialStep, UploadStep
      <3>2. object'[f].of # {}
        BY <1>3, <2>1, UploadOf DEF ObjectInv, Uploaded, Transfer
      <3>3. Sum(f) # NoContent => object'[f].of \subseteq {Sum(f)} /\ object[f].of \subseteq {Sum(f)}
        BY <1>3, <3>1 DEF SerialInv, RowAgrees, Sum
      <3> QED BY <1>0, <3>2, <3>3 DEF Sum
    <2> HIDE DEF Kind
    <2> QED BY <1>1, <1>3, <2>1
  <1> DEFINE Kept0 == \A f \in Files : Told(f) /\ file[f].checksum # NoContent /\ object[f].of # {}
                                     => object'[f].of = object[f].of
  <1>4. CASE SerialClients
    <2>1. Declared /\ SerialInv /\ [Next]_vars => [Kept0]_vars
      BY <1>2, <1>3, <1>4
    <2> HIDE DEF Kept0
    <2>2. SafeSpec => [][Kept0]_vars
      BY <1>4, <2>1, SerialReachable, ObjectReachable, PTL DEF SafeSpec
    <2> QED BY <2>2 DEF OriginalImmutable, Kept0
  <1>5. CASE ~SerialClients
    <2>1. Declared /\ [Next]_vars => [Kept0]_vars
      BY <1>2, <1>5 DEF Told
    <2> HIDE DEF Kept0
    <2>2. SafeSpec => [][Kept0]_vars
      BY <2>1, ObjectReachable, PTL DEF SafeSpec
    <2> QED BY <2>2 DEF OriginalImmutable, Kept0
  <1> QED BY <1>4, <1>5

=============================================================================
