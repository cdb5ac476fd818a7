-------------------------- MODULE Thumbnail_proofs --------------------------
(***************************************************************************)
(* Theorems about Thumbnail, for any videos and any number of crashes.     *)
(***************************************************************************)
EXTENDS Thumbnail, TLAPS

\* A job is in the queue once while it waits, and nowhere else; whoever was promised
\* a thumbnail has a job.
Queued(v)  == \E i \in 1 .. Len(queue) : queue[i] = v
QueueInv ==
  /\ \A i \in 1 .. Len(queue) : job[queue[i]] = "waiting"
  /\ \A i, j \in 1 .. Len(queue) : i # j => queue[i] # queue[j]
  /\ \A v \in Videos :
       /\ job[v] = "waiting" => Queued(v) /\ tries[v] < 2
       /\ page[v] = "done" => job[v] # "none"
       /\ page[v] \in {"idle", "url", "stored"} => job[v] = "none"
       /\ job[v] = "none" => tries[v] = 0

\* Where the worker is with a video: what it has read, put and started.
StepInv ==
  \A v \in Videos :
    /\ step[v] # "none" => job[v] = "active" /\ tries[v] > 0 /\ up
    /\ body[v] # "none" <=> step[v] = "put"
    /\ step[v] = "finish" => thumb[v] # "none"
    /\ job[v] = "completed" => thumb[v] # "none"

\* Only a crash brings a job to its second try.
Retried ==
  \A v \in Videos : (\/ tries[v] = 2
                     \/ tries[v] = 1 /\ job[v] = "waiting"
                     \/ job[v] = "active" /\ step[v] = "none") => crashes > 0

\* No try before this one has started ffmpeg ...
Alone(v) == \A n \in Tries : n < tries[v] => ffmpeg[v][n] = "none"

\* ... and then its own process has ended, and written all or nothing, when its picture
\* is read.
FfmpegOf(v) ==
  /\ \A n \in Tries : n > tries[v] => ffmpeg[v][n] = "none"
  /\ (\A n \in Tries : ffmpeg[v][n] = "none") => output[v] = "none"
  /\ step[v] \in {"fetch", "fetching", "check"} => ffmpeg[v][tries[v]] = "none"
  /\ step[v] = "upload" => ffmpeg[v][tries[v]] = "ended"
  /\ Alone(v) /\ step[v] = "ffmpeg" /\ ffmpeg[v][tries[v]] # "writing" => output[v] = "none"
  /\ Alone(v) /\ step[v] = "upload" => output[v] # "partial"
  /\ Alone(v) => body[v] # "partial" /\ thumb[v] # "partial"
OneFfmpeg == \A v \in Videos : FfmpegOf(v)

ThumbInv == TypeOK /\ QueueInv /\ StepInv /\ Retried /\ OneFfmpeg

LEMMA ThumbInit == Init => ThumbInv
<1> SUFFICES ASSUME Init PROVE ThumbInv
  OBVIOUS
<1>1. TypeOK
  BY VideosAssumption DEF Init, TypeOK, Images, Tries
<1>2. QueueInv
  BY DEF Init, QueueInv
<1>3. StepInv /\ Retried /\ OneFfmpeg
  BY DEF Init, StepInv, Retried, OneFfmpeg, FfmpegOf
<1> QED BY <1>1, <1>2, <1>3 DEF ThumbInv

(***************************************************************************)
(* The page.                                                               *)
(***************************************************************************)

\* Steps that leave the queue and the worker alone.
LEMMA PageSteps ==
  ASSUME ThumbInv, NEW v \in Videos, GetUrl(v) \/ Store(v) \/ GiveUp(v) \/ Move(v)
  PROVE  ThumbInv'
<1> USE DEF ThumbInv
<1>1. UNCHANGED <<queue, job, tries, work, up, crashes>>
  BY DEF GetUrl, Store, GiveUp, Move
<1>2. /\ page' \in [Videos -> {"idle", "url", "stored", "done", "error"}]
      /\ place' \in [Videos -> {"none", "temp", "movie"}]
  BY DEF TypeOK, GetUrl, Store, GiveUp, Move, GoPage
<1>3. \A w \in Videos :
        /\ page'[w] = "done" => page[w] = "done"
        /\ page'[w] \in {"idle", "url", "stored"} => page[w] \in {"idle", "url", "stored"}
  BY DEF TypeOK, GetUrl, Store, GiveUp, Move, GoPage
<1>4. TypeOK'
  BY <1>1, <1>2 DEF TypeOK, work
<1>5. QueueInv'
  BY <1>1, <1>3 DEF QueueInv, Queued
<1>6. StepInv' /\ Retried' /\ OneFfmpeg'
  BY <1>1 DEF StepInv, Retried, OneFfmpeg, FfmpegOf, Alone, work
<1> QED BY <1>4, <1>5, <1>6

LEMMA AddStep ==
  ASSUME ThumbInv, NEW v \in Videos, Add(v)
  PROVE  ThumbInv'
<1> USE DEF ThumbInv
<1>1. /\ page[v] = "stored"
      /\ page' = [page EXCEPT ![v] = "done"] \/ page' = [page EXCEPT ![v] = "error"]
      /\ job' = [job EXCEPT ![v] = "waiting"] /\ queue' = Append(queue, v)
      /\ UNCHANGED <<place, tries, work, up, crashes>>
  BY DEF Add, GoPage
<1>2. job[v] = "none" /\ tries[v] = 0 /\ step[v] = "none"
  BY <1>1 DEF QueueInv, StepInv
<1>3. queue \in Seq(Videos) /\ Len(queue') = Len(queue) + 1 /\ Len(queue) \in Nat
      /\ queue'[Len(queue) + 1] = v
      /\ \A i \in 1 .. Len(queue) : queue'[i] = queue[i] /\ queue[i] \in Videos
  BY <1>1 DEF TypeOK
<1>4. TypeOK'
  <2>1. page' \in [Videos -> {"idle", "url", "stored", "done", "error"}]
    BY <1>1 DEF TypeOK
  <2>2. /\ job' \in [Videos -> {"none", "waiting", "active", "completed", "failed"}]
        /\ queue' \in Seq(Videos)
    BY <1>1 DEF TypeOK
  <2> QED BY <1>1, <2>1, <2>2 DEF TypeOK, work
<1>5. QueueInv'
  <2>1. \A i \in 1 .. Len(queue) : queue[i] # v
    BY <1>2 DEF QueueInv
  <2>2. \A w \in Videos : job'[w] = IF w = v THEN "waiting" ELSE job[w]
    BY <1>1 DEF TypeOK
  <2>3. \A w \in Videos : IF w = v THEN page'[w] \in {"done", "error"} ELSE page'[w] = page[w]
    BY <1>1 DEF TypeOK
  <2>4. \A i \in 1 .. Len(queue') : job'[queue'[i]] = "waiting"
    BY <1>3, <2>1, <2>2 DEF QueueInv
  <2>5. \A i, j \in 1 .. Len(queue') : i # j => queue'[i] # queue'[j]
    BY <1>3, <2>1 DEF QueueInv
  <2>6. \A w \in Videos : Queued(w) \/ w = v => Queued(w)'
    BY <1>3 DEF Queued
  <2> QED BY <1>1, <1>2, <2>2, <2>3, <2>4, <2>5, <2>6 DEF QueueInv
<1>6. \A w \in Videos : job'[w] = IF w = v THEN "waiting" ELSE job[w]
  BY <1>1 DEF TypeOK
<1>7. StepInv' /\ Retried' /\ OneFfmpeg'
  BY <1>1, <1>2, <1>6 DEF StepInv, Retried, OneFfmpeg, FfmpegOf, Alone, work
<1> QED BY <1>4, <1>5, <1>7

(***************************************************************************)
(* The queue and the worker.                                               *)
(***************************************************************************)

LEMMA TakeStep ==
  ASSUME ThumbInv, Take
  PROVE  ThumbInv'
<1> USE DEF ThumbInv
<1> DEFINE v == Head(queue)
<1>1. /\ queue # <<>> /\ queue \in Seq(Videos) /\ queue' = Tail(queue)
      /\ job' = [job EXCEPT ![v] = "active"] /\ tries' = [tries EXCEPT ![v] = @ + 1]
      /\ step' = [step EXCEPT ![v] = IF v \in Presigned THEN "fetch" ELSE "check"]
      /\ up /\ \A w \in Videos : step[w] = "none"
      /\ UNCHANGED <<upload, copies, ffmpeg, output, body, thumb, up, crashes>>
  BY DEF Take, TypeOK
<1>2. /\ Len(queue) \in Nat /\ Len(queue) > 0 /\ Len(queue') = Len(queue) - 1
      /\ v = queue[1] /\ v \in Videos
      /\ \A i \in 1 .. Len(queue') : queue'[i] = queue[i + 1]
      /\ \A i \in 1 .. Len(queue) : queue[i] \in Videos
  BY <1>1
<1> HIDE DEF v
<1>3. job[v] = "waiting" /\ tries[v] \in 0 .. 1 /\ \A i \in 2 .. Len(queue) : queue[i] # v
  BY <1>2 DEF QueueInv, TypeOK
<1>4. TypeOK'
  BY <1>1, <1>2, <1>3 DEF TypeOK, upload
<1>5. QueueInv'
  <2>1. \A w \in Videos : job'[w] = IF w = v THEN "active" ELSE job[w]
    BY <1>1, <1>2 DEF TypeOK
  <2>2. \A i \in 1 .. Len(queue') : queue'[i] # v /\ job'[queue'[i]] = "waiting"
    <3> TAKE i \in 1 .. Len(queue')
    <3>1. i + 1 \in 2 .. Len(queue) /\ i + 1 \in 1 .. Len(queue) /\ queue'[i] = queue[i + 1]
      BY <1>2
    <3>2. queue[i + 1] \in Videos /\ queue[i + 1] # v /\ job[queue[i + 1]] = "waiting"
      BY <1>2, <1>3, <3>1 DEF QueueInv
    <3> QED BY <2>1, <3>1, <3>2
  <2>3. \A i, j \in 1 .. Len(queue') : i # j => queue'[i] # queue'[j]
    BY <1>2 DEF QueueInv
  <2>4. ASSUME NEW w \in Videos, Queued(w), w # v PROVE Queued(w)'
    <3>1. PICK i \in 1 .. Len(queue) : queue[i] = w
      BY <2>4 DEF Queued
    <3>2. i - 1 \in 1 .. Len(queue') /\ queue'[i - 1] = w
      BY <1>2, <2>4, <3>1
    <3> QED BY <3>2 DEF Queued
  <2>5. \A w \in Videos : tries'[w] = IF w = v THEN tries[v] + 1 ELSE tries[w]
    BY <1>1, <1>2 DEF TypeOK
  <2>6. page' = page
    BY <1>1 DEF upload
  <2> QED BY <1>3, <2>1, <2>2, <2>3, <2>4, <2>5, <2>6 DEF QueueInv
<1>6. \A w \in Videos : /\ tries'[w] = IF w = v THEN tries[v] + 1 ELSE tries[w]
                        /\ job'[w] = IF w = v THEN "active" ELSE job[w]
                        /\ w # v => step'[w] = "none"
                        /\ step'[v] \in {"fetch", "check"}
  BY <1>1, <1>2 DEF TypeOK
<1>7. StepInv'
  BY <1>1, <1>2, <1>3, <1>6 DEF StepInv
<1>8. Retried'
  BY <1>1, <1>3, <1>6 DEF Retried
<1>9. OneFfmpeg'
  <2>1. ASSUME NEW w \in Videos, w # v PROVE FfmpegOf(w)'
    BY <1>1, <1>6, <2>1 DEF OneFfmpeg, FfmpegOf, Alone
  <2>2. ASSUME NEW w \in Videos, w = v PROVE FfmpegOf(w)'
    <3>1. /\ tries[w] \in 0 .. 1 /\ tries'[w] = tries[w] + 1 /\ tries'[w] \in Tries
          /\ FfmpegOf(w) /\ ffmpeg' = ffmpeg
      BY <1>1, <1>3, <1>6, <2>2 DEF Tries, OneFfmpeg
    <3>2. \A n \in Tries : n > tries'[w] \/ n = tries'[w] => n > tries[w]
      BY <3>1 DEF Tries
    <3>3. \A n \in Tries : n > tries[w] => ffmpeg'[w][n] = "none"
      BY <3>1 DEF FfmpegOf
    <3>4. Alone(w)' => Alone(w)
      BY <3>1 DEF Alone, Tries
    <3>5. step'[w] \in {"fetch", "check"}
      BY <1>1, <1>2, <2>2 DEF TypeOK
    <3> QED BY <1>1, <3>1, <3>2, <3>3, <3>4, <3>5 DEF FfmpegOf
  <2> QED BY <2>1, <2>2 DEF OneFfmpeg
<1> QED BY <1>4, <1>5, <1>7, <1>8, <1>9

\* Steps after which the queue is as it was, and no job waits that did not wait.
LEMMA QueueLeft ==
  ASSUME ThumbInv, UNCHANGED <<queue, tries, page>>, NEW v \in Videos,
         job' = job \/ (/\ job[v] = "active"
                        /\ \E to \in {"failed", "completed"} : job' = [job EXCEPT ![v] = to])
  PROVE  QueueInv'
<1>1. queue \in Seq(Videos) /\ \A i \in 1 .. Len(queue) : queue[i] \in Videos
  BY DEF ThumbInv, TypeOK
<1>2. CASE job' = job
  BY <1>2 DEF ThumbInv, QueueInv, Queued
<1>3. CASE job[v] = "active" /\ \E to \in {"failed", "completed"} : job' = [job EXCEPT ![v] = to]
  <2>1. \A w \in Videos : job'[w] = job[w] \/ (w = v /\ job'[w] \in {"failed", "completed"})
    BY <1>3 DEF ThumbInv, TypeOK
  <2>2. \A i \in 1 .. Len(queue) : queue[i] # v
    BY <1>3 DEF ThumbInv, QueueInv
  <2>3. \A w \in Videos : Queued(w)' <=> Queued(w)
    BY DEF Queued
  <2> QED BY <1>1, <1>3, <2>1, <2>2, <2>3 DEF ThumbInv, QueueInv
<1> QED BY <1>2, <1>3

\* Steps of the worker with v: what it leaves of the other videos, and what the
\* invariant asks of v.
LEMMA WorkerStep ==
  ASSUME ThumbInv, NEW v \in Videos, TypeOK',
         UNCHANGED <<page, queue, tries, up, crashes>>, job[v] = "active", up,
         \/ job'[v] = "active" /\ step'[v] # "none"
         \/ job'[v] \in {"failed", "completed"} /\ step'[v] = "none",
         \A w \in Videos \ {v} :
           /\ step'[w] = step[w] /\ job'[w] = job[w] /\ body'[w] = body[w]
           /\ thumb'[w] = thumb[w] /\ ffmpeg'[w] = ffmpeg[w] /\ output'[w] = output[w],
         step'[v] # "none" => tries[v] > 0,
         body'[v] # "none" <=> step'[v] = "put",
         step'[v] = "finish" \/ job'[v] = "completed" => thumb'[v] # "none",
         FfmpegOf(v)'
  PROVE  ThumbInv'
<1> USE DEF ThumbInv
<1>1. StepInv' /\ Retried'
  BY DEF StepInv, Retried
<1>2. OneFfmpeg'
  <2>1. ASSUME NEW w \in Videos, w # v PROVE FfmpegOf(w)'
    BY <2>1 DEF OneFfmpeg, FfmpegOf, Alone
  <2> QED BY <2>1 DEF OneFfmpeg
<1>3. QueueInv'
  <2>1. \A i \in 1 .. Len(queue) : queue[i] \in Videos /\ queue[i] # v
    BY DEF QueueInv, TypeOK
  <2> QED BY <2>1 DEF QueueInv, Queued
<1> QED BY <1>1, <1>2, <1>3

\* What holds of the video the worker is with.
LEMMA AtWork ==
  ASSUME ThumbInv, NEW v \in Videos, step[v] # "none"
  PROVE  /\ job[v] = "active" /\ tries[v] \in Tries /\ up
         /\ body[v] \in Images /\ thumb[v] \in Images /\ output[v] \in Images
         /\ step[v] # "put" => body[v] = "none"
         /\ FfmpegOf(v)
BY DEF ThumbInv, TypeOK, StepInv, OneFfmpeg, Tries

LEMMA FailStep ==
  ASSUME ThumbInv, NEW v \in Videos, NEW from, from # "none", Fail(v, from),
         \/ ffmpeg' = ffmpeg
         \/ \E n \in Tries : ffmpeg[v][n] \in {"running", "writing"}
                             /\ ffmpeg' = [ffmpeg EXCEPT ![v][n] = "ended"],
         UNCHANGED <<page, place, queue, tries, copies, output, thumb, up, crashes>>
  PROVE  ThumbInv'
<1>1. /\ step[v] # "none" /\ step' = [step EXCEPT ![v] = "none"]
      /\ job' = [job EXCEPT ![v] = "failed"] /\ body' = [body EXCEPT ![v] = "none"]
  BY DEF Fail, Go
<1>2. TypeOK /\ tries[v] \in Tries
  BY <1>1, AtWork DEF ThumbInv
<1>3. TypeOK'
  <2>1. ffmpeg' \in [Videos -> [Tries -> {"none", "running", "writing", "ended"}]]
    <3>1. ffmpeg \in [Videos -> [Tries -> {"none", "running", "writing", "ended"}]]
      BY <1>2 DEF TypeOK
    <3>2. CASE ffmpeg' = ffmpeg
      BY <3>1, <3>2
    <3>3. ASSUME NEW n \in Tries, ffmpeg' = [ffmpeg EXCEPT ![v][n] = "ended"]
          PROVE  ffmpeg' \in [Videos -> [Tries -> {"none", "running", "writing", "ended"}]]
      BY <3>1, <3>3
    <3> QED BY <3>2, <3>3
  <2>2. /\ step' \in [Videos -> {"none", "fetch", "fetching", "check", "ffmpeg",
                                 "upload", "put", "finish"}]
        /\ job' \in [Videos -> {"none", "waiting", "active", "completed", "failed"}]
        /\ body' \in [Videos -> Images]
    BY <1>1, <1>2 DEF TypeOK, Images
  <2> QED BY <1>2, <2>1, <2>2 DEF TypeOK
<1>4. \A w \in Videos \ {v} : ffmpeg'[w] = ffmpeg[w]
  BY <1>2 DEF TypeOK
<1>5. \A n \in Tries : ffmpeg'[v][n] = "none" <=> ffmpeg[v][n] = "none"
  BY <1>2 DEF TypeOK
<1>6. /\ step'[v] = "none" /\ job'[v] = "failed" /\ body'[v] = "none"
      /\ \A w \in Videos \ {v} :
           step'[w] = step[w] /\ job'[w] = job[w] /\ body'[w] = body[w] /\ thumb'[w] = thumb[w]
  BY <1>1, <1>2 DEF TypeOK
<1>7. FfmpegOf(v)'
  <2>1. FfmpegOf(v)
    BY <1>1, AtWork
  <2>2. Alone(v)' <=> Alone(v)
    BY <1>5 DEF Alone
  <2> QED BY <1>5, <1>6, <2>1, <2>2 DEF FfmpegOf
<1> QED BY <1>1, <1>3, <1>4, <1>6, <1>7, AtWork, WorkerStep

LEMMA DownloadStep ==
  ASSUME ThumbInv, NEW v \in Videos, Download(v) \/ Downloaded(v)
  PROVE  ThumbInv'
<1>1. CASE (Fail(v, "fetch") \/ Fail(v, "fetching")) /\ UNCHANGED copies
  BY <1>1, FailStep DEF Download, Downloaded, upload
<1>2. CASE (Go(v, "fetch", "fetching") \/ Go(v, "fetching", "check")) /\ UNCHANGED <<job, body>>
  <2>1. /\ step[v] \in {"fetch", "fetching"} /\ step' \in {[step EXCEPT ![v] = "fetching"],
                                                          [step EXCEPT ![v] = "check"]}
        /\ UNCHANGED <<job, body, page, place, queue, tries, ffmpeg, output, thumb, up, crashes>>
    BY <1>2 DEF Download, Downloaded, Go, upload
  <2>2. copies' = copies \/ copies' = [copies EXCEPT ![v] = @ \cup {tries[v]}]
    BY DEF Download, Downloaded
  <2>3. TypeOK /\ tries[v] \in Tries
    BY <2>1, AtWork DEF ThumbInv
  <2>4. TypeOK'
    <3>1. copies' \in [Videos -> SUBSET Tries]
      <4>1. copies \in [Videos -> SUBSET Tries]
        BY <2>3 DEF TypeOK
      <4> QED BY <2>2, <2>3, <4>1
    <3>2. step' \in [Videos -> {"none", "fetch", "fetching", "check", "ffmpeg",
                               "upload", "put", "finish"}]
      BY <2>1, <2>3 DEF TypeOK
    <3> QED BY <2>1, <2>3, <3>1, <3>2 DEF TypeOK
  <2>5. step'[v] \in {"fetching", "check"} /\ \A w \in Videos \ {v} : step'[w] = step[w]
    BY <2>1, <2>3 DEF TypeOK
  <2>6. FfmpegOf(v)'
    BY <2>1, <2>5, AtWork DEF FfmpegOf, Alone
  <2> QED BY <2>1, <2>3, <2>4, <2>5, <2>6, AtWork, WorkerStep DEF Tries
<1> QED BY <1>1, <1>2 DEF Download, Downloaded

LEMMA SpawnStep ==
  ASSUME ThumbInv, NEW v \in Videos, Spawn(v)
  PROVE  ThumbInv'
<1>1. CASE Fail(v, "check") /\ UNCHANGED ffmpeg
  BY <1>1, FailStep DEF Spawn, upload
<1>2. CASE Go(v, "check", "ffmpeg") /\ UNCHANGED <<job, body>>
           /\ ffmpeg' = [ffmpeg EXCEPT ![v][tries[v]] = "running"]
  <2>1. /\ step[v] = "check" /\ step' = [step EXCEPT ![v] = "ffmpeg"]
        /\ UNCHANGED <<job, body, page, place, queue, tries, copies, output, thumb, up, crashes>>
    BY <1>2 DEF Spawn, Go, upload
  <2>2. TypeOK /\ tries[v] \in Tries
    BY <2>1, AtWork DEF ThumbInv
  <2>3. TypeOK'
    BY <1>2, <2>1, <2>2 DEF TypeOK
  <2>4. /\ step'[v] = "ffmpeg"
        /\ \A w \in Videos \ {v} : step'[w] = step[w] /\ ffmpeg'[w] = ffmpeg[w]
        /\ \A n \in Tries : n # tries[v] => ffmpeg'[v][n] = ffmpeg[v][n]
        /\ ffmpeg'[v][tries[v]] = "running"
    BY <1>2, <2>1, <2>2 DEF TypeOK
  <2>5. FfmpegOf(v)'
    <3>1. FfmpegOf(v) /\ ffmpeg[v][tries[v]] = "none"
      BY <2>1, AtWork DEF FfmpegOf
    <3>2. Alone(v)' => Alone(v) /\ \A n \in Tries : ffmpeg[v][n] = "none"
      <4>1. ASSUME Alone(v)', NEW n \in Tries PROVE ffmpeg[v][n] = "none"
        <5>1. CASE n < tries[v]
          BY <2>1, <2>2, <2>4, <4>1, <5>1 DEF Alone, Tries
        <5>2. CASE n = tries[v]
          BY <3>1, <5>2
        <5>3. CASE n > tries[v]
          BY <3>1, <5>3 DEF FfmpegOf
        <5> QED BY <2>2, <5>1, <5>2, <5>3 DEF Tries
      <4> QED BY <4>1 DEF Alone
    <3>3. \A n \in Tries : n > tries[v] => ffmpeg'[v][n] = "none"
      BY <2>2, <2>4, <3>1 DEF FfmpegOf, Tries
    <3> QED BY <2>1, <2>2, <2>4, <3>1, <3>2, <3>3 DEF FfmpegOf
  <2> QED BY <2>1, <2>2, <2>3, <2>4, <2>5, AtWork, WorkerStep DEF Tries
<1> QED BY <1>1, <1>2 DEF Spawn

(***************************************************************************)
(* ffmpeg.                                                                 *)
(***************************************************************************)

\* A process that writes, or ends when it is not awaited, whatever has become of the job.
LEMMA ProcessStep ==
  ASSUME ThumbInv, NEW v \in Videos, NEW n \in Tries, NEW to \in {"writing", "ended"},
         ffmpeg[v][n] \in {"running", "writing"}, to = "writing" \/ ~ Awaited(v, n),
         ffmpeg' = [ffmpeg EXCEPT ![v][n] = to],
         NEW picture \in Images, output' = [output EXCEPT ![v] = picture],
         UNCHANGED <<page, place, queue, job, tries, step, copies, body, thumb, up, crashes>>
  PROVE  ThumbInv'
<1> USE DEF ThumbInv
<1>1. \A w \in Videos, m \in Tries :
        ffmpeg'[w][m] = IF w = v /\ m = n THEN to ELSE ffmpeg[w][m]
  BY DEF TypeOK
<1>2. TypeOK'
  BY DEF TypeOK
<1>3. QueueInv'
  BY DEF QueueInv, Queued
<1>4. StepInv' /\ Retried'
  BY DEF StepInv, Retried
<1>5. OneFfmpeg'
  <2>1. ASSUME NEW w \in Videos, w # v PROVE FfmpegOf(w)'
    <3>1. ffmpeg'[w] = ffmpeg[w] /\ output'[w] = output[w]
      BY <2>1 DEF TypeOK
    <3> QED BY <3>1 DEF OneFfmpeg, FfmpegOf, Alone
  <2>2. FfmpegOf(v) /\ n \in 1 .. 2 /\ tries[v] \in 0 .. 2
    BY DEF OneFfmpeg, TypeOK, Tries
  <2>3. ~(n > tries[v])
    BY <2>2 DEF FfmpegOf
  <2>4. Alone(v)' => n = tries[v]
    BY <1>1, <2>2, <2>3 DEF Alone
  <2>5. Alone(v)' => Alone(v)
    BY <1>1, <2>2 DEF Alone, Tries
  <2>6. n = tries[v] => step[v] \notin {"fetch", "fetching", "check", "upload"}
    BY <2>2 DEF FfmpegOf
  <2>7. n = tries[v] /\ step[v] = "ffmpeg" => to = "writing"
    BY DEF Awaited, StepInv
  <2>8. /\ \A m \in Tries : m # n => ffmpeg'[v][m] = ffmpeg[v][m]
        /\ ffmpeg'[v][n] = to
    BY <1>1
  <2>9. step[v] # "none" => tries[v] \in Tries
    BY AtWork
  <2>10. /\ \A m \in Tries : m > tries'[v] => ffmpeg'[v][m] = "none"
         /\ ~ \A m \in Tries : ffmpeg'[v][m] = "none"
    BY <2>2, <2>3, <2>8 DEF FfmpegOf
  <2>11. /\ step'[v] \in {"fetch", "fetching", "check"} => ffmpeg'[v][tries'[v]] = "none"
         /\ step'[v] = "upload" => ffmpeg'[v][tries'[v]] = "ended"
    BY <2>2, <2>6, <2>8, <2>9 DEF FfmpegOf
  <2>12. Alone(v)' => /\ step'[v] = "ffmpeg" => ffmpeg'[v][tries'[v]] = "writing"
                      /\ step'[v] # "upload"
                      /\ body'[v] # "partial" /\ thumb'[v] # "partial"
    BY <2>2, <2>4, <2>5, <2>6, <2>7, <2>8 DEF FfmpegOf
  <2>13. FfmpegOf(v)'
    BY <2>10, <2>11, <2>12 DEF FfmpegOf
  <2> QED BY <2>1, <2>13 DEF OneFfmpeg
<1> QED BY <1>2, <1>3, <1>4, <1>5

LEMMA FfmpegStep ==
  ASSUME ThumbInv, NEW v \in Videos, NEW n \in Tries,
         Write(v, n) \/ Close(v, n) \/ CloseError(v, n)
  PROVE  ThumbInv'
<1>a. TypeOK
  BY DEF ThumbInv
<1>b. /\ {"partial", "whole"} \subseteq Images /\ output[v] \in Images
      /\ output = [output EXCEPT ![v] = output[v]]
  BY <1>a DEF TypeOK, Images
<1>1. CASE Write(v, n)
  BY <1>1, <1>b, ProcessStep DEF Write, upload
<1>2. CASE Close(v, n) /\ ~Awaited(v, n)
  <2>1. \E picture \in Images : output' = [output EXCEPT ![v] = picture]
    BY <1>2, <1>b DEF Close
  <2> QED BY <1>2, <2>1, ProcessStep DEF Close, upload
<1>3. CASE CloseError(v, n) /\ ~Awaited(v, n)
  BY <1>3, <1>b, ProcessStep DEF CloseError, upload
<1>4. CASE CloseError(v, n) /\ Awaited(v, n)
  BY <1>4, FailStep DEF CloseError, upload
<1>5. CASE Close(v, n) /\ Awaited(v, n)
  <2>1. /\ step[v] = "ffmpeg" /\ n = tries[v] /\ step' = [step EXCEPT ![v] = "upload"]
        /\ ffmpeg' = [ffmpeg EXCEPT ![v][n] = "ended"]
        /\ ffmpeg[v][n] \in {"running", "writing"}
        /\ output' = IF ffmpeg[v][n] = "writing" /\ ~ Overwritten(v, n)
                     THEN [output EXCEPT ![v] = "whole"] ELSE output
        /\ UNCHANGED <<job, body, page, place, queue, tries, copies, thumb, up, crashes>>
    BY <1>5 DEF Close, Awaited, upload
  <2>2. TypeOK'
    <3>1. output' \in [Videos -> Images]
      BY <1>a, <1>b, <2>1 DEF TypeOK
    <3> QED BY <1>a, <2>1, <3>1 DEF TypeOK
  <2>3. /\ step'[v] = "upload" /\ ffmpeg'[v][n] = "ended"
        /\ \A w \in Videos \ {v} :
             step'[w] = step[w] /\ ffmpeg'[w] = ffmpeg[w] /\ output'[w] = output[w]
        /\ \A m \in Tries : m # n => ffmpeg'[v][m] = ffmpeg[v][m]
    BY <1>a, <2>1 DEF TypeOK
  <2>4. FfmpegOf(v)'
    <3>1. FfmpegOf(v) /\ tries[v] \in Tries
      BY <2>1, AtWork
    <3>2. Alone(v)' <=> Alone(v)
      BY <2>1, <2>3, <3>1 DEF Alone, Tries
    <3>3. Alone(v) => output'[v] # "partial"
      <4>1. Alone(v) => ~ Overwritten(v, n)
        BY <2>1, <3>1 DEF Alone, Overwritten, FfmpegOf, Tries
      <4> QED BY <1>a, <2>1, <3>1, <4>1 DEF FfmpegOf, TypeOK
    <3>4. \A m \in Tries : m > tries[v] => ffmpeg'[v][m] = "none"
      BY <2>1, <2>3, <3>1 DEF FfmpegOf, Tries
    <3> QED BY <2>1, <2>3, <3>1, <3>2, <3>3, <3>4 DEF FfmpegOf
  <2> QED BY <2>1, <2>2, <2>3, <2>4, AtWork, WorkerStep DEF Tries
<1> QED BY <1>1, <1>2, <1>3, <1>4, <1>5

(***************************************************************************)
(* The end of a job.                                                       *)
(***************************************************************************)

LEMMA TimeoutStep ==
  ASSUME ThumbInv, NEW v \in Videos, Timeout(v)
  PROVE  ThumbInv'
BY FailStep DEF Timeout, upload

LEMMA ReadStep ==
  ASSUME ThumbInv, NEW v \in Videos, ReadOutput(v)
  PROVE  ThumbInv'
<1>1. CASE Fail(v, "upload")
  BY <1>1, FailStep DEF ReadOutput, upload
<1>2. CASE /\ Go(v, "upload", "put") /\ output[v] # "none"
           /\ body' = [body EXCEPT ![v] = output[v]] /\ UNCHANGED job
  <2>1. /\ step[v] = "upload" /\ step' = [step EXCEPT ![v] = "put"]
        /\ UNCHANGED <<job, page, place, queue, tries, copies, ffmpeg, output, thumb, up, crashes>>
    BY <1>2 DEF ReadOutput, Go, upload
  <2>2. TypeOK /\ output[v] \in Images
    BY <2>1, AtWork DEF ThumbInv
  <2>3. TypeOK'
    BY <1>2, <2>1, <2>2 DEF TypeOK
  <2>4. /\ step'[v] = "put" /\ body'[v] = output[v]
        /\ \A w \in Videos \ {v} : step'[w] = step[w] /\ body'[w] = body[w]
    BY <1>2, <2>1, <2>2 DEF TypeOK
  <2>5. FfmpegOf(v)'
    BY <2>1, <2>4, AtWork DEF FfmpegOf, Alone
  <2> QED BY <1>2, <2>1, <2>2, <2>3, <2>4, <2>5, AtWork, WorkerStep DEF Tries
<1> QED BY <1>1, <1>2 DEF ReadOutput

LEMMA PutStep ==
  ASSUME ThumbInv, NEW v \in Videos, Put(v)
  PROVE  ThumbInv'
<1>1. CASE Fail(v, "put") /\ UNCHANGED <<thumb, copies>>
  BY <1>1, FailStep DEF Put, upload
<1>2. CASE /\ Go(v, "put", "finish") /\ thumb' = [thumb EXCEPT ![v] = body[v]]
           /\ body' = [body EXCEPT ![v] = "none"] /\ UNCHANGED job
           /\ copies' \in {copies, [copies EXCEPT ![v] = @ \ {tries[v]}]}
  <2>1. /\ step[v] = "put" /\ step' = [step EXCEPT ![v] = "finish"]
        /\ UNCHANGED <<job, page, place, queue, tries, ffmpeg, output, up, crashes>>
    BY <1>2 DEF Put, Go, upload
  <2>2. TypeOK /\ body[v] # "none"
    BY <2>1 DEF ThumbInv, StepInv
  <2>3. copies' \in [Videos -> SUBSET Tries]
    BY <1>2, <2>2 DEF TypeOK
  <2>4. TypeOK'
    BY <1>2, <2>1, <2>2, <2>3 DEF TypeOK, Images
  <2>5. /\ step'[v] = "finish" /\ body'[v] = "none" /\ thumb'[v] = body[v]
        /\ \A w \in Videos \ {v} :
             step'[w] = step[w] /\ body'[w] = body[w] /\ thumb'[w] = thumb[w]
    BY <1>2, <2>1, <2>2 DEF TypeOK
  <2>6. FfmpegOf(v)'
    BY <2>1, <2>5, AtWork DEF FfmpegOf, Alone
  <2> QED BY <2>1, <2>2, <2>4, <2>5, <2>6, AtWork, WorkerStep DEF Tries
<1> QED BY <1>1, <1>2 DEF Put

LEMMA CompleteStep ==
  ASSUME ThumbInv, NEW v \in Videos, Complete(v)
  PROVE  ThumbInv'
<1>1. /\ step[v] = "finish" /\ step' = [step EXCEPT ![v] = "none"]
      /\ job' = [job EXCEPT ![v] = "completed"]
      /\ UNCHANGED <<page, place, queue, tries, copies, ffmpeg, output, body, thumb, up, crashes>>
  BY DEF Complete, Go, upload
<1>2. TypeOK /\ thumb[v] # "none"
  BY <1>1 DEF ThumbInv, StepInv
<1>3. TypeOK'
  BY <1>1, <1>2 DEF TypeOK
<1>4. /\ step'[v] = "none" /\ job'[v] = "completed"
      /\ \A w \in Videos \ {v} : step'[w] = step[w] /\ job'[w] = job[w]
  BY <1>1, <1>2 DEF TypeOK
<1>5. FfmpegOf(v)'
  BY <1>1, <1>4, AtWork DEF FfmpegOf, Alone
<1> QED BY <1>1, <1>2, <1>3, <1>4, <1>5, AtWork, WorkerStep

LEMMA StalledStep ==
  ASSUME ThumbInv, NEW v \in Videos, Stalled(v)
  PROVE  ThumbInv'
<1> USE DEF ThumbInv
<1>0. /\ job[v] = "active" /\ step[v] = "none"
      /\ UNCHANGED <<page, place, tries, work, up, crashes>>
  BY DEF Stalled, upload
<1>1. CASE tries[v] < 2 /\ job' = [job EXCEPT ![v] = "waiting"] /\ queue' = <<v>> \o queue
  <2>1. /\ queue \in Seq(Videos) /\ Len(queue) \in Nat /\ Len(queue') = Len(queue) + 1
        /\ queue' \in Seq(Videos) /\ queue'[1] = v
        /\ \A i \in 1 .. Len(queue) : queue'[i + 1] = queue[i] /\ queue[i] \in Videos
    BY <1>1 DEF TypeOK
  <2>2. TypeOK'
    BY <1>0, <1>1, <2>1 DEF TypeOK, work
  <2>3. \A w \in Videos : job'[w] = IF w = v THEN "waiting" ELSE job[w]
    BY <1>1 DEF TypeOK
  <2>4. \A i \in 1 .. Len(queue') :
          \/ i = 1 /\ queue'[i] = v
          \/ i - 1 \in 1 .. Len(queue) /\ queue'[i] = queue[i - 1] /\ queue'[i] # v
    <3> TAKE i \in 1 .. Len(queue')
    <3>1. CASE i = 1
      BY <2>1, <3>1
    <3>2. CASE i # 1
      <4>1. i - 1 \in 1 .. Len(queue) /\ (i - 1) + 1 = i
        BY <2>1, <3>2
      <4>2. queue'[i] = queue[i - 1]
        BY <2>1, <4>1
      <4> QED BY <1>0, <4>1, <4>2 DEF QueueInv
    <3> QED BY <3>1, <3>2
  <2>5. QueueInv'
    <3>1. \A i \in 1 .. Len(queue') : job'[queue'[i]] = "waiting"
      <4> TAKE i \in 1 .. Len(queue')
      <4>1. CASE queue'[i] = v
        BY <2>3, <4>1
      <4>2. CASE i - 1 \in 1 .. Len(queue) /\ queue'[i] = queue[i - 1] /\ queue'[i] # v
        <5>1. queue'[i] \in Videos /\ job[queue'[i]] = "waiting"
          BY <2>1, <4>2 DEF QueueInv
        <5> QED BY <2>3, <4>2, <5>1
      <4> QED BY <2>4, <4>1, <4>2
    <3>2. \A i, j \in 1 .. Len(queue') : i # j => queue'[i] # queue'[j]
      <4> TAKE i, j \in 1 .. Len(queue')
      <4>1. CASE i = 1 \/ j = 1
        BY <2>4, <4>1
      <4>2. CASE i # 1 /\ j # 1 /\ i # j
        <5>1. /\ i - 1 \in 1 .. Len(queue) /\ queue'[i] = queue[i - 1]
              /\ j - 1 \in 1 .. Len(queue) /\ queue'[j] = queue[j - 1]
          BY <2>4, <4>2
        <5>2. i - 1 # j - 1
          BY <2>1, <4>2
        <5> QED BY <5>1, <5>2 DEF QueueInv
      <4> QED BY <4>1, <4>2
    <3>3. \A w \in Videos : Queued(w) \/ w = v => Queued(w)'
      <4> TAKE w \in Videos
      <4>1. CASE w = v
        BY <2>1, <4>1 DEF Queued
      <4>2. ASSUME NEW i \in 1 .. Len(queue), queue[i] = w PROVE Queued(w)'
        <5>1. i + 1 \in 1 .. Len(queue') /\ queue'[i + 1] = w
          BY <2>1, <4>2
        <5> QED BY <5>1 DEF Queued
      <4> QED BY <4>1, <4>2 DEF Queued
    <3> QED BY <1>0, <1>1, <2>3, <3>1, <3>2, <3>3 DEF QueueInv
  <2>6. StepInv' /\ Retried' /\ OneFfmpeg'
    BY <1>0, <2>3 DEF StepInv, Retried, OneFfmpeg, FfmpegOf, Alone, work
  <2> QED BY <2>2, <2>5, <2>6
<1>2. CASE job' = [job EXCEPT ![v] = "failed"] /\ UNCHANGED queue
  <2>1. TypeOK'
    BY <1>0, <1>2 DEF TypeOK, work
  <2>2. QueueInv'
    BY <1>0, <1>2, QueueLeft
  <2>3. \A w \in Videos : job'[w] = IF w = v THEN "failed" ELSE job[w]
    BY <1>2 DEF TypeOK
  <2>4. StepInv' /\ Retried' /\ OneFfmpeg'
    BY <1>0, <2>3 DEF StepInv, Retried, OneFfmpeg, FfmpegOf, Alone, work
  <2> QED BY <2>1, <2>2, <2>4
<1> QED BY <1>1, <1>2 DEF Stalled

LEMMA CrashStep ==
  ASSUME ThumbInv, Crash
  PROVE  ThumbInv'
<1> USE DEF ThumbInv
<1>1. /\ UNCHANGED <<page, place, queue, job, tries, copies, output, thumb>>
      /\ \A w \in Videos : step'[w] = "none" /\ body'[w] = "none"
  BY DEF Crash, upload
<1>2. \A w \in Videos, n \in Tries : ffmpeg[w][n] = "none" <=> ffmpeg'[w][n] = "none"
  BY DEF Crash, TypeOK
<1>3. ffmpeg' \in [Videos -> [Tries -> {"none", "running", "writing", "ended"}]]
  BY DEF Crash, TypeOK
<1>4. crashes' \in 0 .. MaxCrashes /\ crashes' > 0
  BY VideosAssumption DEF Crash, TypeOK
<1>5. TypeOK'
  <2>1. /\ step' \in [Videos -> {"none", "fetch", "fetching", "check", "ffmpeg",
                                 "upload", "put", "finish"}]
        /\ body' \in [Videos -> Images] /\ up' \in BOOLEAN
    BY DEF Crash, Images
  <2> QED BY <1>1, <1>3, <1>4, <2>1 DEF TypeOK
<1>6. QueueInv'
  BY <1>1 DEF QueueInv, Queued
<1>7. StepInv' /\ Retried'
  BY <1>1, <1>4 DEF StepInv, Retried
<1>8. OneFfmpeg'
  BY <1>1, <1>2 DEF OneFfmpeg, FfmpegOf, Alone
<1> QED BY <1>5, <1>6, <1>7, <1>8

LEMMA BootStep ==
  ASSUME ThumbInv, Boot
  PROVE  ThumbInv'
BY DEF ThumbInv, Boot, TypeOK, QueueInv, Queued, StepInv, Retried, OneFfmpeg, FfmpegOf, Alone,
   upload, work

LEMMA ThumbStep == ThumbInv /\ [Next]_vars => ThumbInv'
<1> SUFFICES ASSUME ThumbInv, [Next]_vars PROVE ThumbInv'
  OBVIOUS
<1>1. ASSUME NEW v \in Videos, GetUrl(v) \/ Store(v) \/ GiveUp(v) \/ Move(v) PROVE ThumbInv'
  BY <1>1, PageSteps
<1>2. ASSUME NEW v \in Videos, Add(v) PROVE ThumbInv'
  BY <1>2, AddStep
<1>3. ASSUME NEW v \in Videos, Run(v) PROVE ThumbInv'
  BY <1>3, DownloadStep, SpawnStep, TimeoutStep, ReadStep, PutStep, CompleteStep,
     StalledStep DEF Run
<1>4. ASSUME NEW v \in Videos, NEW n \in Tries, Write(v, n) \/ Close(v, n) \/ CloseError(v, n)
      PROVE  ThumbInv'
  BY <1>4, FfmpegStep
<1>5. CASE Take \/ Crash \/ Boot
  BY <1>5, TakeStep, CrashStep, BootStep
<1>6. CASE UNCHANGED vars
  BY <1>6 DEF ThumbInv, TypeOK, QueueInv, Queued, StepInv, Retried, OneFfmpeg, FfmpegOf, Alone,
     vars, upload, work
<1> QED BY <1>1, <1>2, <1>3, <1>4, <1>5, <1>6 DEF Next

LEMMA ThumbHolds == Spec => []ThumbInv
BY ThumbInit, ThumbStep, PTL DEF Spec

(***************************************************************************)
(* Theorems.                                                               *)
(***************************************************************************)

\* Types; in particular BullMQ never hands a job out a third time.
THEOREM ThumbnailTypeCorrect == Spec => []TypeOK
<1>1. ThumbInv => TypeOK
  BY DEF ThumbInv
<1> QED BY <1>1, ThumbHolds, PTL

\* Who was told that the thumbnail is being made has a job in the queue, with a worker,
\* or at its end.
THEOREM PromiseKept == Spec => []PromisedIsQueued
<1>1. ThumbInv => PromisedIsQueued
  BY DEF ThumbInv, PromisedIsQueued, QueueInv, Queued, TypeOK
<1> QED BY <1>1, ThumbHolds, PTL

\* Half a picture is put on S3 in a second try only, after a worker has died that had
\* started ffmpeg for the video.
THEOREM PartialNeedsCrash == Spec => []PartialOnlyAfterCrash
<1>1. ThumbInv => PartialOnlyAfterCrash
  <2> SUFFICES ASSUME ThumbInv, NEW v \in Videos, thumb[v] = "partial"
               PROVE  tries[v] = 2 /\ crashes > 0 /\ ffmpeg[v][1] # "none"
    BY DEF PartialOnlyAfterCrash
  <2>1. ~ Alone(v) /\ tries[v] \in 0 .. 2
    BY DEF ThumbInv, OneFfmpeg, FfmpegOf, TypeOK
  <2>2. tries[v] = 2 /\ ffmpeg[v][1] # "none"
    BY <2>1 DEF Alone, Tries
  <2> QED BY <2>2 DEF ThumbInv, Retried
<1> QED BY <1>1, ThumbHolds, PTL

\* A completed job has put its thumbnail.
THEOREM CompletedIsShown == Spec => []CompletedHasThumbnail
<1>1. ThumbInv => CompletedHasThumbnail
  BY DEF ThumbInv, CompletedHasThumbnail, StepInv
<1> QED BY <1>1, ThumbHolds, PTL
=============================================================================
