----------------------------- MODULE InterviewRoom -----------------------------
(***************************************************************************)
(* The interview room (InterviewRoomPage.tsx): the page's copy of the      *)
(* session, the last answer cycle, the answers it posts and retries, the   *)
(* API client that replays a request once after a refreshed token          *)
(* (services/api/client.ts), and the recorder of its composer.             *)
(*                                                                         *)
(* The backend is what the page sees of it: a status and the number of the *)
(* current question; InterviewSession and InterviewEngine are its models.  *)
(* An answer names no question: it is for whatever is current.  Left out:  *)
(* starting, the exchange log, audio, stages, and being offline.           *)
(***************************************************************************)
EXTENDS AudioRecorder, Naturals, FiniteSets

CONSTANTS LastQuestion,     \* questions of the interview
          MaxPosts          \* bound: answers the page posts

ASSUME RoomAssumption == /\ LastQuestion \in Nat \ {0}
                         /\ MaxPosts \in Nat

VARIABLES
    server,         \* status and current question of the session row
    session,        \* the page's copy; UNKNOWN: its query has failed
    cycle,          \* lastCycle: next_question (0: none) and interview_completed
    posts,          \* POST .../answers in the order sent
    awaited,        \* the post whose promise the page waits for, 0: none
    failed,         \* submitAnswer.isError
    moving,         \* target of the pending pause, resume or cancel, or "none"
    open            \* whether the page is on the screen

roomPageVars == <<server, session, cycle, posts, awaited, failed, moving, open>>
roomVars == <<recorderVars, roomPageVars>>

Posts == 1 .. MaxPosts
Unposted == [at |-> "unposted"]
Post == [at : {"sent", "replayed", "handling", "served", "refused"},
         shown : 1 .. LastQuestion,     \* what the user was looking at
         question : 0 .. LastQuestion,  \* what the backend took it for
         retry : BOOLEAN,               \* sent by the Retry button
         lost : BOOLEAN]                \* the page has seen it fail
Posted == {p \in Posts : posts[p] # Unposted}
CanPost == Posted # Posts
NextPost == Cardinality(Posted) + 1

NoCycle == [next |-> 0, completed |-> FALSE]
Shown == IF cycle.next # 0 THEN cycle.next ELSE session.current
Pending == awaited # 0

RoomInit == /\ server = [status |-> "RUNNING", current |-> 1]
            /\ session = server
            /\ cycle = NoCycle
            /\ posts = [p \in Posts |-> Unposted]
            /\ awaited = 0
            /\ failed = FALSE
            /\ moving = "none"
            /\ open = TRUE

\* The composer is rendered while the page believes the session RUNNING.
SetSession(s) ==
    /\ session' = s
    /\ IF mounted = (s.status = "RUNNING") THEN UNCHANGED recorderVars
       ELSE Mount \/ UnmountComposer

\* The user goes elsewhere, is sent to the report, or is signed out.
CloseRoom ==
    /\ open
    /\ open' = FALSE
    /\ IF mounted THEN UnmountComposer ELSE UNCHANGED recorderVars

-----------------------------------------------------------------------------
(* Posting: handleSubmit and the Retry button.                             *)

Mutate(shown, retry) ==
    /\ CanPost
    /\ posts' = [posts EXCEPT ![NextPost] =
                   [at |-> "sent", shown |-> shown, question |-> 0,
                    retry |-> retry, lost |-> FALSE]]
    /\ awaited' = NextPost
    /\ failed' = FALSE

\* The recording is reset as soon as it has been handed over.
SubmitAudio ==
    /\ ~Pending
    /\ Mutate(Shown, FALSE)
    /\ Reset
    /\ UNCHANGED <<server, session, cycle, moving, open>>

SubmitText ==
    /\ mounted /\ mode = "text"
    /\ ~Pending /\ ~cycle.completed
    /\ Mutate(Shown, FALSE)
    /\ UNCHANGED <<recorderVars, server, session, cycle, moving, open>>

\* lastSubmissionRef once more.
Retry ==
    /\ mounted /\ failed
    /\ Mutate(posts[Cardinality(Posted)].shown, TRUE)
    /\ UNCHANGED <<recorderVars, server, session, cycle, moving, open>>

At(p, points) == p \in Posted /\ posts[p].at \in points
Becomes(p, point) == posts' = [posts EXCEPT ![p].at = point]

\* Mutated form: the cycle is left to the next fetch.
ReceiveOnly(p) ==
    /\ open /\ p = awaited
    /\ At(p, {"served", "refused"})
    /\ awaited' = 0
    /\ failed' = (posts[p].at = "refused")
    /\ posts' = [posts EXCEPT ![p].lost = failed']
    /\ UNCHANGED <<recorderVars, cycle, open, server, session, moving>>

\* The promise settles; only handleSubmit's callback keeps the cycle, and goes to
\* the report when the interview is over.
Receive(p) ==
    /\ open /\ p = awaited
    /\ At(p, {"served", "refused"})
    /\ awaited' = 0
    /\ failed' = (posts[p].at = "refused")
    /\ posts' = [posts EXCEPT ![p].lost = failed']
    /\ LET over == posts[p].question = LastQuestion IN
       IF failed' \/ posts[p].retry
       THEN UNCHANGED <<recorderVars, cycle, open>>
       ELSE /\ cycle' = [next |-> IF over THEN 0 ELSE posts[p].question + 1,
                         completed |-> over]
            /\ IF over THEN CloseRoom ELSE UNCHANGED <<recorderVars, open>>
    /\ UNCHANGED <<server, session, moving>>

\* A timeout or a broken connection: the request may still be served.
GiveUp ==
    /\ open /\ Pending
    /\ awaited' = 0
    /\ failed' = TRUE
    /\ posts' = [posts EXCEPT ![awaited].lost = TRUE]
    /\ UNCHANGED <<recorderVars, server, session, cycle, moving, open>>

-----------------------------------------------------------------------------
(* The API client: a 401 comes before any handler runs.  With a new token  *)
(* the request is replayed once; without one the user is signed out; a     *)
(* second 401 is an error like any other.                                  *)

Unauthorized(p) ==
    /\ \/ At(p, {"sent"}) /\ Becomes(p, "replayed") /\ UNCHANGED <<recorderVars, open>>
       \/ At(p, {"sent"}) /\ Becomes(p, "refused") /\ CloseRoom
       \/ At(p, {"replayed"}) /\ Becomes(p, "refused") /\ UNCHANGED <<recorderVars, open>>
    /\ UNCHANGED <<server, session, cycle, awaited, failed, moving>>

-----------------------------------------------------------------------------
(* The backend.                                                            *)

HandleAnswer(p) ==
    /\ At(p, {"sent", "replayed"})
    /\ posts' = IF server.status = "RUNNING"
                THEN [posts EXCEPT ![p].at = "handling", ![p].question = server.current]
                ELSE [posts EXCEPT ![p].at = "refused"]
    /\ UNCHANGED <<recorderVars, server, session, cycle, awaited, failed, moving, open>>

\* The next question is inserted, refused when another handler has inserted it; or
\* the interview is over, and over again.  Only what the handler changed is written.
CommitAnswer(p) ==
    /\ At(p, {"handling"})
    /\ posts[p].question = server.current
    /\ Becomes(p, "served")
    /\ server' = IF server.current = LastQuestion
                 THEN [server EXCEPT !.status = "COMPLETED"]
                 ELSE [server EXCEPT !.current = @ + 1]
    /\ UNCHANGED <<recorderVars, session, cycle, awaited, failed, moving, open>>

\* Lost, limited, invalid, or failed on the way: the question stays current.
AnswerFails(p) ==
    /\ At(p, {"sent", "replayed", "handling"})
    /\ Becomes(p, "refused")
    /\ UNCHANGED <<recorderVars, server, session, cycle, awaited, failed, moving, open>>

-----------------------------------------------------------------------------
(* Pause, resume and end.  Bound: one of them at a time.                   *)

Allowed(from, target) == from = IF target = "RUNNING" THEN "PAUSED" ELSE "RUNNING"

BeginMove(target) ==
    /\ open /\ moving = "none"
    /\ Allowed(session.status, target)
    /\ target = "PAUSED" => ~Pending
    /\ moving' = target
    /\ UNCHANGED <<recorderVars, server, session, cycle, posts, awaited, failed, open>>

\* The response is merged into the page's copy: that of a resumption names the
\* current question, the others leave the copy's.
MoveSucceeds ==
    /\ open /\ moving # "none"
    /\ Allowed(server.status, moving)
    /\ server' = [server EXCEPT !.status = moving]
    /\ SetSession([status |-> moving,
                   current |-> IF moving = "RUNNING" THEN server.current
                               ELSE session.current])
    /\ moving' = "none"
    /\ UNCHANGED <<cycle, posts, awaited, failed, open>>

\* Refused, lost, or done without an answer.
MoveFails ==
    /\ moving # "none"
    /\ \/ UNCHANGED server
       \/ Allowed(server.status, moving) /\ server' = [server EXCEPT !.status = moving]
    /\ moving' = "none"
    /\ UNCHANGED <<recorderVars, session, cycle, posts, awaited, failed, open>>

\* The session query: after a mutation, a reconnection, or from the error page.
Refetch ==
    /\ open /\ session # server
    /\ SetSession(server)
    /\ UNCHANGED <<server, cycle, posts, awaited, failed, moving, open>>

\* A refetch that fails replaces the whole room by an error.
RefetchFails ==
    /\ open /\ session.status # "UNKNOWN"
    /\ SetSession([session EXCEPT !.status = "UNKNOWN"])
    /\ UNCHANGED <<server, cycle, posts, awaited, failed, moving, open>>

RoomNext ==
    \/ RecorderNext /\ UNCHANGED roomPageVars
    \/ Start /\ ~Pending /\ ~cycle.completed /\ UNCHANGED roomPageVars
    \/ Reset /\ ~Pending /\ UNCHANGED roomPageVars
    \/ SubmitAudio \/ SubmitText \/ Retry \/ GiveUp
    \/ \E p \in Posts : \/ Receive(p) \/ Unauthorized(p)
                        \/ HandleAnswer(p) \/ CommitAnswer(p) \/ AnswerFails(p)
    \/ \E target \in {"PAUSED", "RUNNING", "CANCELLED"} : BeginMove(target)
    \/ MoveSucceeds \/ MoveFails \/ Refetch \/ RefetchFails
    \/ CloseRoom /\ UNCHANGED <<server, session, cycle, posts, awaited, failed, moving>>

RoomSpec == RecorderInit /\ RoomInit /\ [][RoomNext]_roomVars

-----------------------------------------------------------------------------
RoomStatuses == {"RUNNING", "PAUSED", "CANCELLED", "COMPLETED"}

RoomTypeOK ==
    /\ RecorderTypeOK
    /\ server \in [status : RoomStatuses, current : 1 .. LastQuestion]
    /\ session \in [status : RoomStatuses \union {"UNKNOWN"}, current : 1 .. LastQuestion]
    /\ cycle \in [next : 0 .. LastQuestion, completed : BOOLEAN]
    /\ posts \in [Posts -> Post \union {Unposted}]
    /\ awaited \in 0 .. MaxPosts
    /\ failed \in BOOLEAN
    /\ moving \in {"none", "PAUSED", "RUNNING", "CANCELLED"}
    /\ open \in BOOLEAN

\* Until the page has seen a post fail, every answer goes to the question that was
\* on the screen when it was given, though it names none, and the page's copy of
\* the session may be older or newer than its last cycle.
AnswersFitQuestions ==
    (\A p \in Posted : ~posts[p].lost) =>
       \A p \in Posted : posts[p].question # 0 => posts[p].question = posts[p].shown

\* "the room renders the current backend question/stage" (InterviewRoomPage.tsx):
\* with nothing under way and a fresh copy of the session, it shows its question,
\* if every post the page saw fail was answered by an error (none timed out).
RoomShowsCurrentQuestion ==
    /\ open /\ session = server /\ server.status = "RUNNING"
    /\ \A p \in Posted : /\ At(p, {"served", "refused"}) /\ p # awaited
                         /\ posts[p].lost => At(p, {"refused"})
    => Shown = server.current
=============================================================================
