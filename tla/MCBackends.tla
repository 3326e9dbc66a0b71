------------------------------ MODULE MCBackends ------------------------------
(***************************************************************************)
(* One run over the backends and the translations of their streams: the    *)
(* app-server transport, the Codex and OpenCode turns, the approval        *)
(* policy, the tool gate of Claude sessions, the events of the gateway's   *)
(* stream, the Codex bridge, the sanitizer, the progress relay and the     *)
(* envelopes of agent messages. They share no state, so the suite runs one *)
(* at a time over the same variables: the initial state chooses it         *)
(* (focus).                                                                *)
(***************************************************************************)
EXTENDS Naturals, Sequences, FiniteSets, TLC

CONSTANTS Callers, Sessions, None

VARIABLES
    focus,
    x1, x2, x3, x4, x5, x6, x7, x8, x9, x10, x11, x12, x13, x14, x15, x16, x17, x18, x19, x20,
    x21, x22, x23, x24

all == <<focus, x1, x2, x3, x4, x5, x6, x7, x8, x9, x10, x11, x12, x13, x14, x15, x16, x17, x18,
         x19, x20, x21, x22, x23, x24>>

\* One request beside two interactions, one message on the wire.
A == INSTANCE AppServer WITH
        Requests <- Callers, MaxAsk <- 2, MaxWire <- 1, term <- x1, closing <- x2, report <- x3,
        proc <- x4, group <- x5, reading <- x6, writer <- x7, pc <- x8, fut <- x9, sent <- x10,
        orphans <- x11, tomb <- x12, told <- x13, fan <- x14, wire <- x15, asked <- x16,
        replied <- x17, cur <- x18, ist <- x19, withdrawn <- x20

\* Two turns, one of them may ask.
C == INSTANCE CodexTurn WITH
        MaxTurn <- 2, MaxAsk <- 1, HardLimit <- 2, up <- x1, turn <- x2, stage <- x3, req <- x4,
        native <- x5, stopped <- x6, sub <- x7, holder <- x8, ask <- x9, asked <- x10,
        pend <- x11, cancelling <- x12, child <- x13, durable <- x14, told <- x15

\* Two sessions of different environments take the shared process in turn;
\* the approval policy, over continuations that change it.
R == INSTANCE CodexRpc WITH
        EnvOf <- [s \in Sessions |-> s], MaxProc <- 2, MaxTurn <- 2, MaxAsk <- 2, MaxQueue <- 2,
        proc <- x1, count <- x2, env <- x3, lock <- x4, st <- x5, tries <- x6, no <- x7,
        native <- x8, queue <- x9, ask <- x10, asked <- x11, pend <- x12, told <- x13,
        global <- x14, handle <- x15, wanted <- x16, question <- x17, verdict <- x18

\* Two prompts of two pieces of text.
O == INSTANCE OpenCode WITH
        MaxPrompt <- 2, MaxText <- 2, MaxQueue <- 3, phase <- x1, prompt <- x2, alive <- x3,
        id <- x4, serving <- x5, asking <- x6, text <- x7, tool <- x8, stream <- x9,
        conv <- x10, told <- x11, cut <- x12

\* Streams of five chunks, with the text of subagents held back.
E == INSTANCE StreamEvents WITH
        MaxChunk <- 5, SubagentText <- FALSE, conf <- x1, st <- x2, comp <- x3, flight <- x4,
        wire <- x5, sdk <- x6, count <- x7, silent <- x8

\* Completions of three chunks; requests of four items and two tools.
B == INSTANCE CodexBridge WITH
        MaxChunk <- 3, LengthCompletes <- FALSE, MaxItem <- 4, MaxTool <- 2, st <- x1,
        seen <- x2, sent <- x3, count <- x4, over <- x5, body <- x6, turns <- x7

\* Streams of four events.
S == INSTANCE Sanitizer WITH
        MaxEvent <- 4, bridged <- x1, br <- x2, san <- x3, out <- x4, sent <- x5, count <- x6,
        over <- x7

\* One turn and the envelopes it sends.
M == INSTANCE AgentMessages WITH
        gen <- x1, ws <- x2, cli <- x3, handle <- x4, result <- x5, stage <- x6, told <- x7,
        out <- x8

\* Two clients, two turns, two calls and a queue of one; streams of three
\* events.
N == INSTANCE ProgressRelay WITH
        Calls <- {"c1", "c2"}, Tokens <- Sessions, MaxClient <- 2, MaxTurn <- 2, MaxPart <- 6,
        MaxStream <- 2, MaxTokens <- 2, QueueSize <- 1, MaxPending <- 1, client <- x1,
        probed <- x2, registry <- x3, tokens <- x4, queue <- x5, call <- x6, turn <- x7,
        shown <- x8, list <- x9, owed <- x10, known <- x11, stream <- x12

\* Two calls that may need a decision; two requests that read one catalog;
\* every configuration of the hooks; two writers.
G == INSTANCE ToolGate WITH
        Calls <- {"c1", "c2"}, Starts <- {"r1", "r2"}, MaxInstall <- 1, MaxTick <- 1,
        Writers <- Sessions, Limit <- 2, boundary <- x1, standing <- x2, mode <- x3, call <- x4,
        slot <- x5, event <- x6, response <- x7, lock <- x8, said <- x9, installed <- x10,
        settled <- x11, cache <- x12, slots <- x13, hidden <- x14, req <- x15, changes <- x16,
        ticks <- x17, conf <- x18, linkTo <- x19, job <- x20, touched <- x21, size <- x22,
        writer <- x23, raced <- x24

-----------------------------------------------------------------------------
\* The variables after the first n are not used, and stay as they are.
Unused(n) ==
    /\ (n < 8 => x8 = "unused") /\ (n < 9 => x9 = "unused") /\ (n < 10 => x10 = "unused")
    /\ (n < 11 => x11 = "unused") /\ (n < 12 => x12 = "unused") /\ (n < 13 => x13 = "unused")
    /\ (n < 14 => x14 = "unused") /\ (n < 15 => x15 = "unused") /\ (n < 16 => x16 = "unused")
    /\ (n < 17 => x17 = "unused") /\ (n < 18 => x18 = "unused") /\ (n < 19 => x19 = "unused")
    /\ (n < 20 => x20 = "unused") /\ (n < 21 => x21 = "unused") /\ (n < 22 => x22 = "unused")
    /\ (n < 23 => x23 = "unused") /\ (n < 24 => x24 = "unused")
Still(n) ==
    /\ UNCHANGED focus
    /\ (n < 8 => UNCHANGED x8) /\ (n < 9 => UNCHANGED x9) /\ (n < 10 => UNCHANGED x10)
    /\ (n < 11 => UNCHANGED x11) /\ (n < 12 => UNCHANGED x12) /\ (n < 13 => UNCHANGED x13)
    /\ (n < 14 => UNCHANGED x14) /\ (n < 15 => UNCHANGED x15) /\ (n < 16 => UNCHANGED x16)
    /\ (n < 17 => UNCHANGED x17) /\ (n < 18 => UNCHANGED x18) /\ (n < 19 => UNCHANGED x19)
    /\ (n < 20 => UNCHANGED x20) /\ (n < 21 => UNCHANGED x21) /\ (n < 22 => UNCHANGED x22)
    /\ (n < 23 => UNCHANGED x23) /\ (n < 24 => UNCHANGED x24)

Init ==
    \/ focus = "transport" /\ A!Init /\ Unused(20)
    \/ focus = "codex" /\ C!Init /\ Unused(15)
    \/ focus = "rpc" /\ R!RpcInit
          /\ x14 = "unused" /\ x15 = "unused" /\ x16 = "unused" /\ x17 = "unused"
          /\ x18 = "unused"
          /\ Unused(18)
    \/ focus = "policy" /\ R!PolicyInit
          /\ x1 = "unused" /\ x2 = "unused" /\ x3 = "unused" /\ x4 = "unused"
          /\ x5 = "unused" /\ x6 = "unused" /\ x7 = "unused" /\ x8 = "unused"
          /\ x9 = "unused" /\ x10 = "unused" /\ x11 = "unused" /\ x12 = "unused"
          /\ x13 = "unused"
          /\ Unused(18)
    \/ focus = "opencode" /\ O!Init /\ Unused(12)
    \/ focus = "events" /\ E!Init /\ Unused(8)
    \/ focus = "bridge" /\ B!StreamInit
          /\ x6 = "unused" /\ x7 = "unused"
          /\ Unused(7)
    \/ focus = "request" /\ B!RequestInit
          /\ x1 = "unused" /\ x2 = "unused" /\ x3 = "unused" /\ x4 = "unused"
          /\ x5 = "unused"
          /\ Unused(7)
    \/ focus = "sanitizer" /\ S!Init /\ Unused(7)
    \/ focus = "messages" /\ M!Init /\ Unused(8)
    \/ focus = "progress" /\ N!Init /\ Unused(12)
    \/ focus = "lists" /\ N!Init /\ Unused(12)
    \/ focus = "decisions" /\ G!DecisionInit
          /\ x10 = "unused" /\ x11 = "unused" /\ x12 = "unused" /\ x13 = "unused"
          /\ x14 = "unused" /\ x15 = "unused" /\ x16 = "unused" /\ x17 = "unused"
          /\ x18 = "unused" /\ x19 = "unused" /\ x20 = "unused" /\ x21 = "unused"
          /\ x22 = "unused" /\ x23 = "unused" /\ x24 = "unused"
          /\ Unused(24)
    \/ focus = "selection" /\ G!SelectionInit
          /\ x1 = "unused" /\ x2 = "unused" /\ x3 = "unused" /\ x4 = "unused"
          /\ x5 = "unused" /\ x6 = "unused" /\ x7 = "unused" /\ x8 = "unused"
          /\ x9 = "unused" /\ x18 = "unused" /\ x19 = "unused" /\ x20 = "unused"
          /\ x21 = "unused" /\ x22 = "unused" /\ x23 = "unused" /\ x24 = "unused"
          /\ Unused(24)
    \/ focus = "paths" /\ G!GuardInit
          /\ x1 = "unused" /\ x2 = "unused" /\ x3 = "unused" /\ x4 = "unused"
          /\ x5 = "unused" /\ x6 = "unused" /\ x7 = "unused" /\ x8 = "unused"
          /\ x9 = "unused" /\ x10 = "unused" /\ x11 = "unused" /\ x12 = "unused"
          /\ x13 = "unused" /\ x14 = "unused" /\ x15 = "unused" /\ x16 = "unused"
          /\ x17 = "unused" /\ x22 = "unused" /\ x23 = "unused" /\ x24 = "unused"
          /\ Unused(24)
    \/ focus = "quota" /\ G!QuotaInit
          /\ x1 = "unused" /\ x2 = "unused" /\ x3 = "unused" /\ x4 = "unused"
          /\ x5 = "unused" /\ x6 = "unused" /\ x7 = "unused" /\ x8 = "unused"
          /\ x9 = "unused" /\ x10 = "unused" /\ x11 = "unused" /\ x12 = "unused"
          /\ x13 = "unused" /\ x14 = "unused" /\ x15 = "unused" /\ x16 = "unused"
          /\ x17 = "unused" /\ x18 = "unused" /\ x19 = "unused" /\ x20 = "unused"
          /\ x21 = "unused"
          /\ Unused(24)

Next ==
    \/ focus = "transport" /\ A!Next /\ Still(20)
    \/ focus = "codex" /\ C!Next /\ Still(15)
    \/ focus = "rpc" /\ R!RpcStep /\ Still(18)
    \/ focus = "policy" /\ R!PolicyStep /\ Still(18)
    \/ focus = "opencode" /\ O!Next /\ Still(12)
    \/ focus = "events" /\ E!Next /\ Still(8)
    \/ focus = "bridge" /\ B!StreamNext /\ Still(7)
    \/ focus = "request" /\ B!RequestNext /\ Still(7)
    \/ focus = "sanitizer" /\ S!Next /\ Still(7)
    \/ focus = "messages" /\ M!Next /\ Still(8)
    \/ focus = "progress" /\ N!ProgressStep /\ Still(12)
    \/ focus = "lists" /\ N!ListStep /\ Still(12)
    \/ focus = "decisions" /\ G!DecisionStep /\ Still(24)
    \/ focus = "selection" /\ G!SelectionStep /\ Still(24)
    \/ focus = "paths" /\ G!GuardStep /\ Still(24)
    \/ focus = "quota" /\ G!QuotaStep /\ Still(24)

Spec == Init /\ [][Next]_all

-----------------------------------------------------------------------------
\* Work a backend accepted is never abandoned: a turn that runs has an owner
\* in the gateway, and it is reported as a success only when its server has
\* completed it, whatever was cancelled, detached or left over from the turn
\* before; and a cancelled turn's workspace goes only when its CLI is gone
\* (codex/client.py, opencode/client.py, agent_messages.py).
TurnsAreOwned ==
    /\ focus = "codex" => C!TurnIsOwned /\ C!SuccessIsReal
    /\ focus = "opencode" => O!TurnIsFaithful
    /\ focus = "messages" => M!CwdOutlivesCli

\* Every request and every question to a backend is settled once, in the
\* process and the turn it belongs to; no approval of a denied tool is
\* granted, no tool runs on another call's approval, and what a session uses
\* is what was selected for it and shared with it (appserver/transport.py,
\* codex/client.py, appserver/policy.py, claude/client.py, slash_commands.py,
\* workspace_sandbox.py).
RequestsSettleOnce ==
    /\ focus = "transport" => A!OneOutcome /\ A!AnswerIsFenced
    /\ focus = "rpc" => R!SharedRpcIsSound
    /\ focus = "policy" => R!DenyIsEnforced
    /\ focus = "decisions" => G!OnlyApprovedRuns /\ G!WaitersAreHeard /\ G!ReadsStayInside
    /\ focus = "selection" => G!SelectionHolds /\ G!InstalledIsFound
    /\ focus = "paths" => G!SharedIsKept
    /\ focus = "quota" => G!SoftInKnownWays

\* Whatever the upstream interleaves, the stream that goes out can be
\* followed and is whole: items one at a time and closed, no fragment lost,
\* doubled or given to another call, a terminal event that lists what was
\* sent, and nothing in an envelope that it is not for; and the progress a
\* turn shows is of its own calls, its bytes passed on whole
\* (streaming_utils.py, codex_responses_bridge/stream.py, sanitizer/,
\* agent_messages.py, mcp_progress_relay.py).
StreamsAreSound ==
    /\ focus = "events" => E!WireIsSound /\ E!FlightIsReal
    /\ focus = "bridge" => B!StreamParses
    /\ focus = "sanitizer" => S!OutputConforms
    /\ focus = "messages" => M!EnvelopeIsClean
    /\ focus \in {"progress", "lists"} => N!RelayIsFaithful

\* A translated request holds every call and every result, each result next
\* to the block that asked for it (codex_responses_bridge/request.py).
RequestIsFaithful == focus = "request" => B!RequestIsFaithful
=============================================================================
