----------------------------- MODULE AgentProxy -----------------------------
(***************************************************************************)
(* The chat of the notes page (apps/web/src/app/page.tsx) and the route    *)
(* that forwards its messages to the eve agent                             *)
(* (apps/web/src/app/api/agent/notes/route.ts). The page sends neither     *)
(* threadId nor sessionId, so its key is the default one; other clients of *)
(* the route name a thread, or send back the sessionId of an answer. What  *)
(* the agent does is external: it starts sessions, answers, fails, or is   *)
(* too late.                                                               *)
(***************************************************************************)
EXTENDS Naturals, Sequences

CONSTANTS Pages, Threads, NoSession,
          MaxMessages   \* messages each page sends; bounds the model

ASSUME ProxyAssumption ==
  Threads # {} /\ NoSession \notin Nat /\ MaxMessages \in [Pages -> Nat]

VARIABLES
  messages,   \* the chat of each page: "user", "assistant" or "error" entries
  isLoading,  \* of each page
  sent,       \* messages the page has sent: its current request is <<p, sent[p]>>
  pc,         \* the POST of each request: "none", "arrived", "calling", "failed", "replied"
  key,        \* its sessionKey
  outcome,    \* the status of its response
  sessions,   \* the map: sessionId of the entry stored under each key
  call,       \* the request to the agent: "none", "sent", "received", "answered"
  session,    \* the session this call is made in, or NoSession for a new one
  started,    \* the agent has given out the session ids 1 .. started
  asked,      \* history: times the agent received the message
  newCalls    \* history: calls for a new session made for the message

chat == <<messages, isLoading, sent>>
agent == <<session, started, asked>>
chatVars == <<chat, pc, key, outcome, sessions, call, agent, newCalls>>

Posts == UNION {{p} \X (1..MaxMessages[p]) : p \in Pages}
DefaultKey == CHOOSE k \in Threads : TRUE

ChatInit ==
  /\ messages = [p \in Pages |-> <<>>]
  /\ isLoading = [p \in Pages |-> FALSE]
  /\ sent = [p \in Pages |-> 0]
  /\ pc = [r \in Posts |-> "none"] /\ call = pc
  /\ key = [r \in Posts |-> DefaultKey]
  /\ outcome = [r \in Posts |-> 0] /\ asked = outcome /\ newCalls = outcome
  /\ sessions = [k \in {} |-> NoSession]
  /\ session = [r \in Posts |-> NoSession]
  /\ started = 0

-----------------------------------------------------------------------------
(* The page. *)

\* handleSendMessage, up to its fetch.
SendMessage(p, k) ==
  /\ ~isLoading[p] /\ sent[p] < MaxMessages[p]
  /\ isLoading' = [isLoading EXCEPT ![p] = TRUE]
  /\ messages' = [messages EXCEPT ![p] = Append(@, "user")]
  /\ sent' = [sent EXCEPT ![p] = @ + 1]
  /\ pc' = [pc EXCEPT ![<<p, sent[p] + 1>>] = "arrived"]
  /\ key' = [key EXCEPT ![<<p, sent[p] + 1>>] = k]
  /\ UNCHANGED <<outcome, sessions, call, agent, newCalls>>

Show(p, entry) ==
  /\ messages' = [messages EXCEPT ![p] = Append(@, entry)]
  /\ isLoading' = [isLoading EXCEPT ![p] = FALSE]
  /\ UNCHANGED <<sent, pc, key, outcome, sessions, call, agent, newCalls>>

\* The response arrives; only status 200 has an assistant message.
ReceiveReply(p) ==
  LET r == <<p, sent[p]>>
  IN /\ isLoading[p] /\ pc[r] = "replied"
     /\ Show(p, IF outcome[r] = 200 THEN "assistant" ELSE "error")

\* The fetch of the page fails; the route may still be busy with the message.
LoseReply(p) == isLoading[p] /\ Show(p, "error")

-----------------------------------------------------------------------------
(* POST. *)

Ask(r, id) ==
  /\ pc' = [pc EXCEPT ![r] = "calling"]
  /\ call' = [call EXCEPT ![r] = "sent"]
  /\ session' = [session EXCEPT ![r] = id]
  /\ newCalls' = [newCalls EXCEPT ![r] = IF id = NoSession THEN @ + 1 ELSE @]
  /\ UNCHANGED <<started, asked>>

\* The first call. With a session stored under its key, callEveAgent looks that
\* session up again, under the id of the session instead of the key.
CallAgent(r) ==
  /\ pc[r] = "arrived"
  /\ IF key[r] \notin DOMAIN sessions THEN Ask(r, NoSession)
     ELSE IF sessions[key[r]] \in DOMAIN sessions THEN Ask(r, sessions[sessions[key[r]]])
     ELSE pc' = [pc EXCEPT ![r] = "failed"] /\ UNCHANGED <<call, agent, newCalls>>
  /\ UNCHANGED <<chat, key, outcome, sessions>>

Reply(r, status) ==
  /\ pc' = [pc EXCEPT ![r] = "replied"]
  /\ outcome' = [outcome EXCEPT ![r] = status]
  /\ UNCHANGED <<chat, key, agent, newCalls>>

\* Faulty variant: the fallback asks in a new session, once.
FallbackAsks(r) ==
  /\ pc[r] = "failed"
  /\ IF newCalls[r] < 2 THEN Ask(r, NoSession) /\ UNCHANGED <<chat, key, outcome>>
                        ELSE Reply(r, 503) /\ UNCHANGED call
  /\ UNCHANGED sessions

\* The fallback for an error reads the body of the request a second time, which
\* throws before it can call the agent.
Fallback(r) ==
  /\ pc[r] = "failed"
  /\ Reply(r, 503)
  /\ UNCHANGED <<sessions, call>>

\* The agent has answered; the session is stored if it can be continued.
AgentAnswer(r) ==
  /\ pc[r] = "calling" /\ call[r] = "answered"
  /\ \/ UNCHANGED sessions
     \/ sessions' = [k \in DOMAIN sessions \union {key[r]} |->
                       IF k = key[r] THEN session[r] ELSE sessions[k]]
  /\ call' = [call EXCEPT ![r] = "none"]
  /\ Reply(r, 200)

\* Faulty variant: the call has no time limit.
AgentErrorOnly(r) ==
  /\ pc[r] = "calling" /\ call[r] = "answered"
  /\ call' = [call EXCEPT ![r] = "none"]
  /\ pc' = [pc EXCEPT ![r] = "failed"]
  /\ UNCHANGED <<chat, key, outcome, sessions, agent, newCalls>>

\* The agent answers with an error, or the call is aborted after 30 seconds: a
\* message that is still on its way may reach the agent later, but nobody hears
\* the answer.
AgentFails(r) ==
  /\ pc[r] = "calling"
  /\ \/ call' = [call EXCEPT ![r] = "none"]
     \/ call[r] = "sent" /\ UNCHANGED call
  /\ pc' = [pc EXCEPT ![r] = "failed"]
  /\ UNCHANGED <<chat, key, outcome, sessions, agent, newCalls>>

-----------------------------------------------------------------------------
(* The agent. *)

AgentReceives(r) ==
  /\ call[r] = "sent"
  /\ call' = [call EXCEPT ![r] = "received"]
  /\ asked' = [asked EXCEPT ![r] = @ + 1]
  /\ IF session[r] = NoSession
     THEN started' = started + 1 /\ session' = [session EXCEPT ![r] = started + 1]
     ELSE UNCHANGED <<session, started>>
  /\ UNCHANGED <<chat, pc, key, outcome, sessions, newCalls>>

AgentReplies(r) ==
  /\ call[r] = "received" /\ pc[r] = "calling"
  /\ call' = [call EXCEPT ![r] = "answered"]
  /\ UNCHANGED <<chat, pc, key, outcome, sessions, agent, newCalls>>

-----------------------------------------------------------------------------
Route(r) == CallAgent(r) \/ Fallback(r) \/ AgentAnswer(r) \/ AgentFails(r)

ChatNext ==
  \/ \E p \in Pages : \/ \E k \in Threads \union 1..started : SendMessage(p, k)
                      \/ ReceiveReply(p) \/ LoseReply(p)
  \/ \E r \in Posts : Route(r) \/ AgentReceives(r) \/ AgentReplies(r)

\* The browser and the server go on; the time limit stands for the agent.
Fairness ==
  /\ \A p \in Pages : WF_chatVars(ReceiveReply(p))
  /\ \A r \in Posts : WF_chatVars(Route(r))

ChatSpec == ChatInit /\ [][ChatNext]_chatVars /\ Fairness

-----------------------------------------------------------------------------
\* A message reaches the agent at most once, also when the answer is late and
\* the fallback has run: the agent does not save a note twice for one message.
AskedOnce == \A r \in Posts : asked[r] <= 1

\* Whatever the agent does, the page gets one entry for every message it sent,
\* and can send another one; questions and answers alternate.
MessagesAnswered ==
  \A p \in Pages :
    /\ isLoading[p] ~> ~isLoading[p]
    /\ [](isLoading[p] <=> Len(messages[p]) % 2 = 1)

\* "Fallback: try starting a new session if continuation failed": an error is
\* answered only after a new session was tried for the message.
FallbackStartsSession ==
  \A r \in Posts : pc[r] = "replied" /\ outcome[r] = 503 => newCalls[r] >= 1
=============================================================================
