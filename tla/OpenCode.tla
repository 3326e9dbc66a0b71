------------------------------- MODULE OpenCode -------------------------------
(***************************************************************************)
(* Turns of one session on an OpenCode server: OpenCodeClient of           *)
(* backends/opencode/client.py and the converter of events.py.             *)
(*                                                                         *)
(* A streamed turn listens to the server's event stream before it posts    *)
(* its prompt; what the stream says is cut down to the session's own       *)
(* assistant output.  A question pauses the turn: its stream is closed and *)
(* the answer is posted under a new one, with a new converter.  Text is    *)
(* the sequence of its positions, so that a repeated or foreign piece      *)
(* shows.                                                                  *)
(***************************************************************************)
EXTENDS Naturals, SequencesExt

CONSTANTS
    MaxPrompt,      \* prompts of the session
    MaxText,        \* positions of a text part
    MaxQueue        \* events not yet read

VARIABLES
    phase,      \* the gateway's turn: idle, open, posted, asked, over
    prompt,     \* number of the prompt
    alive,      \* the session exists on the server
    id,         \* session.opencode_session_id is set
    serving,    \* the prompts the server works on; a prompt to a busy session joins them
    asking,     \* the server waits for an answer
    text,       \* positions of the current part the server has produced
    tool,       \* its tool call: none, running, done
    stream,     \* the open event stream, in order
    conv,       \* OpenCodeEventConverter
    told,       \* how the turn ended
    cut         \* a turn was taken for finished while the server went on with it

server == <<alive, serving, asking, text, tool>>
vars == <<phase, prompt, id, server, stream, conv, told, cut>>

\* OpenCodeEventConverter(session_id)
NewConverter == [roles |-> FALSE, part |-> <<>>, out |-> <<>>, uses |-> 0, results |-> 0,
                 active |-> FALSE]

Init ==
    /\ phase = "none" /\ prompt = 0 /\ alive = FALSE /\ id = FALSE
    /\ serving = {} /\ asking = FALSE /\ text = 0 /\ tool = "none" /\ cut = FALSE
    /\ stream = <<>> /\ conv = NewConverter /\ told = "none"

-----------------------------------------------------------------------------
(* The client.                                                             *)

\* create_client: the id kept on the gateway's session is used as it is.
CreateClient ==
    /\ phase = "none"
    /\ phase' = "idle" /\ id' = TRUE /\ alive' = (alive \/ ~id)
    /\ UNCHANGED <<prompt, serving, asking, text, tool, stream, conv, told, cut>>

\* _stream_events up to the open event stream, for a prompt or an answer.
OpenStream ==
    /\ phase \in {"idle", "asked"}
    /\ phase = "idle" => prompt < MaxPrompt
    /\ prompt' = IF phase = "idle" THEN prompt + 1 ELSE prompt
    /\ phase' = IF phase = "idle" THEN "open" ELSE "reopened"
    /\ stream' = <<>> /\ conv' = NewConverter /\ told' = "none"
    /\ UNCHANGED <<id, server, cut>>

Fail == phase' = "failed" /\ told' = "error" /\ stream' = <<>>

\* The prompt, or the answer of the question or permission, is posted.
Post ==
    /\ phase \in {"open", "reopened"}
    /\ IF alive
       THEN /\ phase' = "reading" /\ UNCHANGED <<stream, told>>
            /\ IF phase = "open"
               THEN /\ serving' = serving \cup {prompt} /\ UNCHANGED asking
                    /\ text' = (IF serving = {} THEN 0 ELSE text) /\ tool' = "none"
               ELSE asking' = FALSE /\ text' = 0 /\ UNCHANGED <<serving, tool>>
       ELSE Fail /\ UNCHANGED <<serving, asking, text, tool>>
    /\ UNCHANGED <<prompt, id, alive, conv, cut>>

\* The non-streaming path: one request, one answer.
PostAndWait(ok) ==
    /\ phase = "idle" /\ prompt < MaxPrompt /\ prompt' = prompt + 1
    /\ IF alive /\ ok
       THEN told' = "ok" /\ serving' = {} /\ UNCHANGED <<phase, stream>>
       ELSE Fail /\ UNCHANGED serving
    /\ ~asking
    /\ UNCHANGED <<id, alive, asking, text, tool, conv, cut>>

Next1(type) == phase = "reading" /\ stream # <<>> /\ Head(stream).type = type
Keep(c) == stream' = Tail(stream) /\ conv' = c /\ UNCHANGED <<phase, prompt, id, server, told, cut>>

\* _record_message_role: the ids of the user's messages become known.
ReadRole == Next1("role") /\ Keep([conv EXCEPT !.roles = TRUE])

\* The session's user messages and the events of other sessions say nothing.
ReadSkipped ==
    \/ Next1("foreign") /\ Keep(conv)
    \/ Next1("echo") /\ Keep(IF conv.roles THEN conv
                             ELSE [conv EXCEPT !.out = Append(@, 0), !.active = TRUE])

\* _convert_text_event: a delta is appended; of a snapshot only what follows
\* the text the converter has of that part.
ReadText ==
    /\ Next1("text")
    /\ LET e == Head(stream)
           fresh == IF ~e.whole THEN e.piece
                    ELSE IF IsPrefix(conv.part, e.piece)
                         THEN SubSeq(e.piece, Len(conv.part) + 1, Len(e.piece)) ELSE e.piece
       IN  Keep([conv EXCEPT !.out = @ \o fresh,
                             !.part = IF e.whole THEN e.piece ELSE @ \o e.piece,
                             !.active = @ \/ fresh # <<>>])

\* _convert_tool_event: each call's use and result once.
ReadTool ==
    /\ Next1("tool")
    /\ LET over == Head(stream).over
       IN  Keep([conv EXCEPT !.uses = 1, !.results = IF over THEN 1 ELSE @, !.active = TRUE])

\* A question or a permission: the route pauses the turn and closes the stream.
ReadAsk ==
    /\ Next1("ask")
    /\ phase' = "asked" /\ stream' = <<>> /\ told' = "asked"
    /\ conv' = [conv EXCEPT !.active = TRUE]
    /\ UNCHANGED <<prompt, id, server, cut>>

\* Mutant: an idle notice ends the turn whether anything was heard or not.
ReadIdleAny ==
    /\ Next1("idle")
    /\ phase' = "idle" /\ told' = "ok" /\ stream' = <<>> /\ UNCHANGED <<prompt, id, server, conv, cut>>

\* finished: an idle session ends the turn once something of it was heard.
ReadIdle ==
    /\ Next1("idle")
    /\ IF conv.active
       THEN phase' = "idle" /\ told' = "ok" /\ stream' = <<>> /\ UNCHANGED <<prompt, id, server, conv, cut>>
       ELSE Keep(conv)

ReadError ==
    /\ Next1("error")
    /\ Fail /\ UNCHANGED <<prompt, id, server, conv, cut>>

\* The stream ends without an idle notice: what there is counts as the answer;
\* or it breaks, or the caller goes away.
StreamEnds ==
    /\ phase = "reading"
    /\ \/ stream = <<>> /\ phase' = "idle" /\ told' = "ok" /\ UNCHANGED stream
          /\ cut' = (cut \/ serving # {})
       \/ Fail /\ UNCHANGED cut
    /\ UNCHANGED <<prompt, id, server, conv>>

\* OpenCodeSessionClient.disconnect after a failed turn, or of an expired
\* session: the server's session is deleted; its id stays on the gateway's.
Disconnect ==
    /\ phase \in {"failed", "idle", "asked"}
    /\ phase' = "none" /\ alive' = FALSE /\ serving' = {} /\ asking' = FALSE
    /\ UNCHANGED <<prompt, id, text, tool, stream, conv, told, cut>>

-----------------------------------------------------------------------------
(* The OpenCode server: external.                                          *)

Says(e) == stream' = IF phase \in {"open", "reopened", "reading"} THEN Append(stream, e) ELSE stream
CanSay == Len(stream) < MaxQueue
Same == UNCHANGED <<phase, prompt, id, alive, conv, told, cut>>

SayRole == CanSay /\ serving # {} /\ text = 0 /\ ~conv.roles /\ Says([type |-> "role"])
           /\ stream = <<>> /\ Same /\ UNCHANGED <<serving, asking, text, tool>>
SayEcho == CanSay /\ serving # {} /\ conv.roles /\ text = 0 /\ Says([type |-> "echo"])
           /\ Same /\ UNCHANGED <<serving, asking, text, tool>>
SayForeign == CanSay /\ Says([type |-> "foreign"]) /\ Same
              /\ UNCHANGED <<serving, asking, text, tool>>

\* A piece of the part, or the part so far.
SayText(whole) ==
    /\ CanSay /\ serving # {} /\ ~asking
    /\ text' = IF text < MaxText THEN text + 1 ELSE text
    /\ whole \/ text < MaxText
    /\ Says([type |-> "text", whole |-> whole,
             piece |-> IF whole THEN [i \in 1..text' |-> i] ELSE <<text'>>])
    /\ Same /\ UNCHANGED <<serving, asking, tool>>

SayTool ==
    /\ CanSay /\ serving # {} /\ ~asking /\ tool # "done"
    /\ \E s \in {"running", "done"} : tool' = s /\ Says([type |-> "tool", over |-> s = "done"])
    /\ Same /\ UNCHANGED <<serving, asking, text>>

AskUser ==
    /\ CanSay /\ serving # {} /\ ~asking /\ asking' = TRUE
    /\ Says([type |-> "ask"])
    /\ Same /\ UNCHANGED <<serving, text, tool>>

Finish ==
    /\ CanSay /\ serving # {} /\ ~asking /\ serving' = {}
    /\ \E t \in {"idle", "error"} : Says([type |-> t])
    /\ Same /\ UNCHANGED <<asking, text, tool>>

\* The session was idle before the prompt reached it and says so again.
SayIdle ==
    /\ CanSay /\ serving = {} /\ alive /\ phase = "open" /\ Says([type |-> "idle"])
    /\ Same /\ UNCHANGED <<serving, asking, text, tool>>

Client == \/ CreateClient \/ OpenStream \/ Post \/ ReadRole \/ ReadSkipped \/ ReadText
          \/ ReadTool \/ ReadAsk \/ ReadIdle \/ ReadError \/ StreamEnds \/ Disconnect
          \/ \E ok \in BOOLEAN : PostAndWait(ok)

Server == \/ SayRole \/ SayEcho \/ SayForeign \/ SayTool \/ AskUser \/ Finish \/ SayIdle
          \/ \E whole \in BOOLEAN : SayText(whole)

Next == Client \/ Server

Spec == Init /\ [][Next]_vars

-----------------------------------------------------------------------------
\* What the user reads is the server's text: no piece twice, none of the
\* user's own words, whatever mix of deltas and snapshots came
\* (_convert_text_event); and a turn ends well only when the server has
\* finished it, not by the idle notice of the turn before (finished).  All
\* of it until a stream ends early, which counts as an answer.
TurnIsFaithful ==
    ~cut =>
        /\ \A i \in DOMAIN conv.out : conv.out[i] = i
        /\ told = "ok" => serving = {}

=============================================================================
