----------------------------- MODULE Thumbnail -----------------------------
(***************************************************************************)
(* A video from the upload page to its thumbnail: POST /common/video or a  *)
(* presigned PUT and POST /common/trigger-thumbnail (Upload.tsx,           *)
(* CommonController), the BullMQ queue, and the worker process             *)
(* (ThumbnailGenerationProcess) that runs ffmpeg.                          *)
(*                                                                         *)
(* The worker takes one job at a time; it waits for S3, for ffmpeg or for  *)
(* its timer, and may stop at any of these.  BullMQ gives a job a second   *)
(* worker when the first one's lock has run out (maxStalledCount is 1),    *)
(* and no retry otherwise (attempts is 1).                                 *)
(***************************************************************************)
EXTENDS Integers, Sequences, FiniteSets

CONSTANTS
  Videos,      \* files a user uploads
  Presigned,   \* those sent by presigned URL; the others go through the server
  Movable,     \* those POST /movie may name: their file leaves public/temp
  MaxCrashes   \* bound on the ends of the worker process

ASSUME VideosAssumption ==
  /\ Presigned \subseteq Videos /\ Movable \subseteq Videos
  /\ MaxCrashes \in Nat

VARIABLES
  page,     \* the page's request for the video
  place,    \* where the video is
  queue,    \* waiting jobs, oldest first
  job,      \* the job's state in Redis
  tries,    \* times a worker has taken it
  step,     \* where the worker is with it
  copies,   \* downloads of the video left in the temporary directory, by try
  ffmpeg,   \* the process each try has started
  output,   \* public/thumbnail/<name>.png on the disk
  body,     \* what the worker has read of it
  thumb,    \* the thumbnail on S3
  up,       \* the worker process runs
  crashes   \* ends of the worker process (bounded)

upload == <<page, place>>
work   == <<step, copies, ffmpeg, output, body, thumb>>
vars   == <<upload, queue, job, tries, work, up, crashes>>

Tries  == 1 .. 2
Images == {"none", "partial", "whole"}

TypeOK ==
  /\ page   \in [Videos -> {"idle", "url", "stored", "done", "error"}]
  /\ place  \in [Videos -> {"none", "temp", "movie"}]
  /\ queue  \in Seq(Videos)
  /\ job    \in [Videos -> {"none", "waiting", "active", "completed", "failed"}]
  /\ tries  \in [Videos -> 0 .. 2]
  /\ step   \in [Videos -> {"none", "fetch", "fetching", "check", "ffmpeg",
                            "upload", "put", "finish"}]
  /\ copies \in [Videos -> SUBSET Tries]
  /\ ffmpeg \in [Videos -> [Tries -> {"none", "running", "writing", "ended"}]]
  /\ output \in [Videos -> Images]
  /\ body   \in [Videos -> Images]
  /\ thumb  \in [Videos -> Images]
  /\ up \in BOOLEAN
  /\ crashes \in 0 .. MaxCrashes

Init ==
  /\ page   = [v \in Videos |-> "idle"]
  /\ place  = [v \in Videos |-> "none"]
  /\ queue  = <<>>
  /\ job    = [v \in Videos |-> "none"]
  /\ tries  = [v \in Videos |-> 0]
  /\ step   = [v \in Videos |-> "none"]
  /\ copies = [v \in Videos |-> {}]
  /\ ffmpeg = [v \in Videos |-> [n \in Tries |-> "none"]]
  /\ output = [v \in Videos |-> "none"]
  /\ body   = [v \in Videos |-> "none"]
  /\ thumb  = [v \in Videos |-> "none"]
  /\ up = TRUE /\ crashes = 0

(***************************************************************************)
(* The page and the controller.                                            *)
(***************************************************************************)

GoPage(v, from, to) == page[v] = from /\ page' = [page EXCEPT ![v] = to]

\* handlePresignedUpload: the URL comes first.
GetUrl(v) ==
  /\ v \in Presigned
  /\ GoPage(v, "idle", "url")
  /\ UNCHANGED <<place, queue, job, tries, work, up, crashes>>

\* multer has written the file to public/temp, or the PUT is through.
Store(v) ==
  /\ GoPage(v, IF v \in Presigned THEN "url" ELSE "idle", "stored")
  /\ place' = [place EXCEPT ![v] = "temp"]
  /\ UNCHANGED <<queue, job, tries, work, up, crashes>>

\* A request is refused or fails; the last one has not added its job.
GiveUp(v) ==
  /\ page[v] \in {"idle", "url", "stored"}
  /\ page' = [page EXCEPT ![v] = "error"]
  /\ UNCHANGED <<place, queue, job, tries, work, up, crashes>>

\* createVideo and triggerThumbnail: the job is in Redis before the page hears of it,
\* if it hears of it.
\* Mutant: the queue is not waited for, and may fail.
AddUnawaited(v) ==
  /\ GoPage(v, "stored", "done")
  /\ \/ queue' = Append(queue, v) /\ job' = [job EXCEPT ![v] = "waiting"]
     \/ UNCHANGED <<queue, job>>
  /\ UNCHANGED <<place, tries, work, up, crashes>>
Add(v) ==
  /\ GoPage(v, "stored", "done") \/ GoPage(v, "stored", "error")
  /\ queue' = Append(queue, v)
  /\ job' = [job EXCEPT ![v] = "waiting"]
  /\ UNCHANGED <<place, tries, work, up, crashes>>

\* POST /movie moves the file into public/movie, whatever the job has come to.
Move(v) ==
  /\ v \in Movable /\ place[v] = "temp"
  /\ place' = [place EXCEPT ![v] = "movie"]
  /\ UNCHANGED <<page, queue, job, tries, work, up, crashes>>

(***************************************************************************)
(* The worker.                                                             *)
(***************************************************************************)

Go(v, from, to) ==
  /\ up /\ step[v] = from
  /\ step' = [step EXCEPT ![v] = to]

\* process() has thrown: the job has failed for good.
Fail(v, from) ==
  /\ Go(v, from, "none")
  /\ job' = [job EXCEPT ![v] = "failed"]
  /\ body' = [body EXCEPT ![v] = "none"]

\* The worker takes the oldest job when it has none.
Take ==
  /\ up /\ queue # <<>>
  /\ \A v \in Videos : step[v] = "none"
  /\ LET v == Head(queue) IN
       /\ queue' = Tail(queue)
       /\ job'   = [job EXCEPT ![v] = "active"]
       /\ tries' = [tries EXCEPT ![v] = @ + 1]
       /\ step'  = [step EXCEPT ![v] = IF v \in Presigned THEN "fetch" ELSE "check"]
  /\ UNCHANGED <<upload, copies, ffmpeg, output, body, thumb, up, crashes>>

\* downloadVideoFromS3ToTemp: no object, no file; then the stream into a file named
\* after the time, so that every try has its own ...
Download(v) ==
  /\ \/ /\ place[v] = "temp"
        /\ Go(v, "fetch", "fetching")
        /\ copies' = [copies EXCEPT ![v] = @ \cup {tries[v]}]
        /\ UNCHANGED <<job, body>>
     \/ Fail(v, "fetch") /\ UNCHANGED copies
  /\ UNCHANGED <<upload, queue, tries, ffmpeg, output, thumb, up, crashes>>

\* ... which ends, or breaks and leaves what it has written.
Downloaded(v) ==
  /\ \/ Go(v, "fetching", "check") /\ UNCHANGED <<job, body>>
     \/ Fail(v, "fetching")
  /\ UNCHANGED <<upload, queue, tries, copies, ffmpeg, output, thumb, up, crashes>>

\* The video must be there; ffmpeg is started.
Spawn(v) ==
  /\ IF v \in Presigned \/ place[v] = "temp"
     THEN /\ Go(v, "check", "ffmpeg")
          /\ ffmpeg' = [ffmpeg EXCEPT ![v][tries[v]] = "running"]
          /\ UNCHANGED <<job, body>>
     ELSE Fail(v, "check") /\ UNCHANGED ffmpeg
  /\ UNCHANGED <<upload, queue, tries, copies, output, thumb, up, crashes>>

\* The process of try n is the one the worker waits for.
Awaited(v, n) == up /\ step[v] = "ffmpeg" /\ n = tries[v]

\* ffmpeg -y: the file is emptied and written, which may never be finished.
Write(v, n) ==
  /\ ffmpeg[v][n] = "running"
  /\ ffmpeg' = [ffmpeg EXCEPT ![v][n] = "writing"]
  /\ output' = [output EXCEPT ![v] = "partial"]
  /\ UNCHANGED <<upload, queue, job, tries, step, copies, body, thumb, up, crashes>>

\* Another try's process is in the middle of the file.
Overwritten(v, n) == \E m \in Tries \ {n} : ffmpeg[v][m] = "writing"

\* It ends with code 0, having written a picture or found none, and the worker goes on
\* if it still waits for it ...
Close(v, n) ==
  /\ ffmpeg[v][n] \in {"running", "writing"}
  /\ ffmpeg' = [ffmpeg EXCEPT ![v][n] = "ended"]
  /\ output' = IF ffmpeg[v][n] = "writing" /\ ~ Overwritten(v, n)
               THEN [output EXCEPT ![v] = "whole"] ELSE output
  /\ step' = IF Awaited(v, n) THEN [step EXCEPT ![v] = "upload"] ELSE step
  /\ UNCHANGED <<upload, queue, job, tries, copies, body, thumb, up, crashes>>

\* ... or with another, or could not be started.
CloseError(v, n) ==
  /\ ffmpeg[v][n] \in {"running", "writing"}
  /\ ffmpeg' = [ffmpeg EXCEPT ![v][n] = "ended"]
  /\ IF Awaited(v, n) THEN Fail(v, "ffmpeg") ELSE UNCHANGED <<step, job, body>>
  /\ UNCHANGED <<upload, queue, tries, copies, output, thumb, up, crashes>>

\* THUMBNAIL_TIMEOUT_MS are over.  Nobody stops ffmpeg.
\* Mutants: the race resolves; there is no timer.
TimeoutResolves(v) ==
  /\ Go(v, "ffmpeg", "upload")
  /\ UNCHANGED <<upload, queue, job, tries, copies, ffmpeg, output, body, thumb, up, crashes>>
TimeoutNever(v) == FALSE
Timeout(v) ==
  /\ Fail(v, "ffmpeg")
  /\ UNCHANGED <<upload, queue, tries, copies, ffmpeg, output, thumb, up, crashes>>

\* uploadThumbnailToS3 reads what is on the disk, while another try's ffmpeg may be
\* writing it, ...
ReadOutput(v) ==
  /\ IF output[v] # "none"
     THEN /\ Go(v, "upload", "put")
          /\ body' = [body EXCEPT ![v] = output[v]]
          /\ UNCHANGED job
     ELSE Fail(v, "upload")
  /\ UNCHANGED <<upload, queue, tries, copies, ffmpeg, output, thumb, up, crashes>>

\* ... and puts it; then the downloaded video is removed, or left with a warning.
\* Mutant: an error of S3 is logged and forgotten.
PutForgiven(v) ==
  /\ Go(v, "put", "finish")
  /\ thumb'  \in {thumb, [thumb EXCEPT ![v] = body[v]]}
  /\ body'   = [body EXCEPT ![v] = "none"]
  /\ copies' = [copies EXCEPT ![v] = @ \ {tries[v]}]
  /\ UNCHANGED <<upload, queue, job, tries, ffmpeg, output, up, crashes>>
Put(v) ==
  /\ \/ /\ Go(v, "put", "finish")
        /\ thumb'  = [thumb EXCEPT ![v] = body[v]]
        /\ body'   = [body EXCEPT ![v] = "none"]
        /\ copies' \in {copies, [copies EXCEPT ![v] = @ \ {tries[v]}]}
        /\ UNCHANGED job
     \/ Fail(v, "put") /\ UNCHANGED <<thumb, copies>>
  /\ UNCHANGED <<upload, queue, tries, ffmpeg, output, up, crashes>>

\* process() has returned.
Complete(v) ==
  /\ Go(v, "finish", "none")
  /\ job' = [job EXCEPT ![v] = "completed"]
  /\ UNCHANGED <<upload, queue, tries, copies, ffmpeg, output, body, thumb, up, crashes>>

\* The worker process ends; its ffmpeg processes may or may not end with it.
Crash ==
  /\ up /\ crashes < MaxCrashes
  /\ up' = FALSE
  /\ crashes' = crashes + 1
  /\ step' = [v \in Videos |-> "none"]
  /\ body' = [v \in Videos |-> "none"]
  /\ \/ UNCHANGED ffmpeg
     \/ ffmpeg' = [v \in Videos |-> [n \in Tries |->
                     IF ffmpeg[v][n] = "none" THEN "none" ELSE "ended"]]
  /\ UNCHANGED <<upload, queue, job, tries, copies, output, thumb>>

Boot ==
  /\ ~up
  /\ up' = TRUE
  /\ UNCHANGED <<upload, queue, job, tries, work, crashes>>

\* BullMQ finds a job whose lock ran out: once it waits again, then it has failed.
Stalled(v) ==
  /\ up /\ job[v] = "active" /\ step[v] = "none"
  /\ IF tries[v] < 2
     THEN job' = [job EXCEPT ![v] = "waiting"] /\ queue' = <<v>> \o queue
     ELSE job' = [job EXCEPT ![v] = "failed"] /\ UNCHANGED queue
  /\ UNCHANGED <<upload, tries, work, up, crashes>>

Run(v) == \/ Download(v) \/ Downloaded(v) \/ Spawn(v) \/ Timeout(v)
          \/ ReadOutput(v) \/ Put(v) \/ Complete(v) \/ Stalled(v)

Next ==
  \/ \E v \in Videos : \/ GetUrl(v) \/ Store(v) \/ GiveUp(v) \/ Add(v) \/ Move(v) \/ Run(v)
                       \/ \E n \in Tries : Write(v, n) \/ Close(v, n) \/ CloseError(v, n)
  \/ Take \/ Crash \/ Boot

\* A worker that runs goes on: S3 and Redis answer or fail, timers fire.  ffmpeg
\* may hang, and nobody has to upload anything.
Spec == /\ Init /\ [][Next]_vars
        /\ \A v \in Videos : WF_vars(Run(v))
        /\ WF_vars(Take) /\ WF_vars(Boot)

(***************************************************************************)
(* Properties.                                                             *)
(***************************************************************************)

\* While the page says that the thumbnail is being made, there is a job for it
\* (Upload.tsx 28, 64), however the job has ended since.
PromisedIsQueued ==
  \A v \in Videos : page[v] = "done" =>
    \/ job[v] \in {"active", "completed", "failed"}
    \/ job[v] = "waiting" /\ \E i \in 1 .. Len(queue) : queue[i] = v

\* Half a picture is put on S3 only by a second try, after a worker that had started
\* ffmpeg has died: two ffmpeg processes of a video never run in one life of the worker,
\* although the timeout leaves them running, and what one leaves unfinished is not taken.
PartialOnlyAfterCrash ==
  \A v \in Videos : thumb[v] = "partial" =>
    tries[v] = 2 /\ crashes > 0 /\ ffmpeg[v][1] # "none"

\* A job that is done has its thumbnail on S3, however often it was taken up and
\* wherever a worker died or gave up on ffmpeg before.
CompletedHasThumbnail ==
  \A v \in Videos : job[v] = "completed" => thumb[v] # "none"

\* However ffmpeg hangs and the worker dies, every job comes to an end.
EveryJobEnds ==
  \A v \in Videos : job[v] = "waiting" ~> job[v] \in {"completed", "failed"}
=============================================================================
