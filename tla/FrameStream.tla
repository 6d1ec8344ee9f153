---------------------------- MODULE FrameStream -----------------------------
(***************************************************************************)
(* What the writing side of a WebSocket connection promises: a frame that  *)
(* a caller hands over goes out whole and at most once, a call succeeds if *)
(* and only if its last frame has gone out, nothing but control frames     *)
(* comes between the frames of a message, and once a close frame has gone  *)
(* out or the stream has broken nothing follows.                           *)
(***************************************************************************)
EXTENDS Naturals, Sequences

CONSTANTS
  Callers,      \* who hands over frames
  Frames,       \* the frames
  NoFrame,      \* what a caller with no call has
  Closes(_),    \* is this a close frame?
  Hurries(_),   \* may the call for this frame give up?
  Alone(_),     \* is this a control frame?
  Final(_),     \* is this the last frame of its message?
  Follows(_, _) \* does the second continue the message of the first?

VARIABLES
  call,     \* the frame each caller has handed over
  gone,     \* has it gone out?
  result,   \* how the last call of each ended
  stream,   \* the frames that have gone out
  shut      \* can nothing go out any more?

fsVars == <<call, gone, result, stream, shut>>

FSInit ==
  /\ call = [t \in Callers |-> NoFrame]
  /\ gone = [t \in Callers |-> FALSE]
  /\ result = [t \in Callers |-> "none"]
  /\ stream = <<>>
  /\ shut = FALSE

HandOver(t, f) ==
  /\ call[t] = NoFrame
  /\ call' = [call EXCEPT ![t] = f]
  /\ UNCHANGED <<gone, result, stream, shut>>

\* The next frame of a message is handed over when the one before has gone out.
GoOn(t, f) ==
  /\ call[t] # NoFrame /\ gone[t]
  /\ ~Final(call[t]) /\ Follows(call[t], f)
  /\ call' = [call EXCEPT ![t] = f]
  /\ gone' = [gone EXCEPT ![t] = FALSE]
  /\ UNCHANGED <<result, stream, shut>>

\* k is the last place of the stream with a frame that is not a control frame.
LastPart(k) ==
  ~Alone(stream[k]) /\ \A j \in DOMAIN stream : j > k => Alone(stream[j])

\* f is a control frame and the whole of its message, or goes on with a message or begins one when
\* there is none to go on with.
Fits(f) ==
  IF Alone(f) THEN Final(f)
  ELSE \A k \in DOMAIN stream :
         LastPart(k) => Final(stream[k]) \/ Follows(stream[k], f)

GoOut(t) ==
  /\ call[t] # NoFrame /\ ~gone[t] /\ ~shut
  /\ Fits(call[t])
  /\ stream' = Append(stream, call[t])
  /\ gone' = [gone EXCEPT ![t] = TRUE]
  /\ shut' = Closes(call[t])
  /\ UNCHANGED <<call, result>>

Return(t) ==
  /\ call[t] # NoFrame
  /\ \/ gone[t] /\ Final(call[t])
     \/ ~gone[t] /\ (shut \/ Hurries(call[t]) \/ (Alone(call[t]) /\ ~Final(call[t])))
  /\ result' = [result EXCEPT ![t] = IF gone[t] THEN "ok" ELSE "error"]
  /\ call' = [call EXCEPT ![t] = NoFrame]
  /\ gone' = [gone EXCEPT ![t] = FALSE]
  /\ UNCHANGED <<stream, shut>>

BreakDown == shut' = TRUE /\ UNCHANGED <<call, gone, result, stream>>

FSNext ==
  \/ \E t \in Callers :
       (\E f \in Frames : HandOver(t, f) \/ GoOn(t, f)) \/ GoOut(t) \/ Return(t)
  \/ BreakDown

FSSpec == FSInit /\ [][FSNext]_fsVars
=============================================================================
