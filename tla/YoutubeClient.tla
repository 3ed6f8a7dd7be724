--------------------------- MODULE YoutubeClient ---------------------------
(***************************************************************************)
(* The client of the YouTube Data API (collection/youtube_client.py): how  *)
(* one call ends, what a batch of videos.list says of each video, and how  *)
(* a video is told to be an upload, a livestream or a Premiere.  Only      *)
(* operators: the modules that call YouTube choose the answers.            *)
(***************************************************************************)
EXTENDS Naturals, Sequences, FiniteSetsExt

(***************************************************************************)
(* One HTTP attempt of a request.                                          *)
(***************************************************************************)
Answers == {"response", "quotaExceeded", "backendError", "badRequest", "noNetwork"}

ClassifyHttpError(answer) ==
    CASE answer = "quotaExceeded" -> "stop_all"
      [] answer = "backendError"  -> "retryable"
      [] answer = "badRequest"    -> "non_retryable"

\* A transport failure is no HTTP error, and is retried like a retryable one.
Retried(answer) == answer = "noNetwork" \/
                   (answer # "response" /\ ClassifyHttpError(answer) = "retryable")

(***************************************************************************)
(* How a call ends whose attempts are answered by the sequence answers,    *)
(* one answer for every attempt it may make.                               *)
(***************************************************************************)
Decisive(answers) == {i \in DOMAIN answers : ~Retried(answers[i])}

CallYoutubeApi(answers) ==
    IF Decisive(answers) = {} THEN "YouTubeAPIError"
    ELSE LET last == answers[Min(Decisive(answers))]
         IN CASE last = "response" -> "response"
              [] last = "quotaExceeded" -> "QuotaExhaustedError"
              [] OTHER -> "YouTubeAPIError"

Attempts(answers) == IF Decisive(answers) = {} THEN Len(answers) ELSE Min(Decisive(answers))

(***************************************************************************)
(* What YouTube shows of a video: its kind never changes, its phase does.  *)
(* A stream or a Premiere carries liveStreamingDetails; the times inside   *)
(* them, the broadcast state and the duration follow the phase, as the     *)
(* module's comments observed them.                                        *)
(***************************************************************************)
Kinds  == {"upload", "short", "stream", "premiere"}
Phases == {"upcoming", "running", "ended"}

Item(kind, phase) ==
    LET broadcast == kind \in {"stream", "premiere"}
    IN [details    |-> broadcast,
        scheduled  |-> broadcast,
        started    |-> broadcast /\ phase # "upcoming",
        ended      |-> broadcast /\ phase = "ended",
        atStart    |-> kind = "premiere" /\ phase # "upcoming",   \* published when it started
        upcoming   |-> broadcast /\ phase = "upcoming",           \* liveBroadcastContent
        duration   |-> ~(kind = "premiere" /\ phase = "upcoming")]

IsCompletedPremiere(item) == item.started /\ item.ended /\ item.atStart

IsUpcomingPremiere(item) ==
    item.upcoming /\ item.scheduled /\ ~item.started /\ ~item.ended /\ ~item.duration

(***************************************************************************)
(* contentType and liveStatus as one value: "upload", or the liveStatus of *)
(* a livestream.                                                           *)
(***************************************************************************)
Classification(item) ==
    IF ~item.details \/ IsCompletedPremiere(item) \/ IsUpcomingPremiere(item) THEN "upload"
    ELSE IF item.ended THEN "completed"
    ELSE IF item.started THEN "live"
    ELSE "upcoming"

(***************************************************************************)
(* _fetch_batch: of the videos asked, those missing from the response and  *)
(* those that cannot be parsed are skipped for a reason; the others are    *)
(* results.                                                                *)
(***************************************************************************)
FetchBatch(batch, missing, malformed) ==
    [results |-> batch \ (missing \cup malformed),
     reasons |-> [v \in batch \cap (missing \cup malformed) |->
                    IF v \in missing THEN "noData" ELSE "malformed"]]
=============================================================================
