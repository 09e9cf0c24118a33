----------------------------- MODULE HostKeyTrust -----------------------------
(***************************************************************************)
(* Host keys: the verifier of a dial (hostVerifier.ts), the prompt it      *)
(* shows, and the answer on its way back (ConnectionManager.ts,            *)
(* ServerConnection.ts, serverStore.ts, HostKeyDialog.tsx).                *)
(*                                                                         *)
(* The answer names a server, not a prompt: the manager takes it for the   *)
(* connection test under way when the ids agree, else for the connection.  *)
(* A prompt and its answer travel as messages, so the prompt on display    *)
(* may not be the one that waits.                                          *)
(***************************************************************************)
EXTENDS Null, Naturals, Sequences

CONSTANTS
    Dial,          \* dials with a key exchange, of connections and of tests
    Server,        \* server ids
    Host, Key,     \* host:port pairs and the fingerprints they present
    MaxMessages    \* bound: messages on their way to the window

ASSUME HkNoneAssumption == None \notin Dial \cup Key

VARIABLES
    hkDial,        \* the dials: whose, where, which key, how far
    hkTest,        \* pendingTestHostKey: the dial it resolves
    hkPending,     \* pendingHostKey of each server's connection
    hkKnown,       \* HostKeyStore.hosts
    hkPrompt,      \* hostKeyPrompt of the window
    hkToWindow,    \* prompts and replies on their way to the window
    hkAnswers,     \* answers on their way to the manager
    hkAccepted,    \* what the user accepted on display: <<host, key>> (history)
    hkMixed        \* two prompts of one server id met (history)

hkVars == <<hkDial, hkTest, hkPending, hkKnown, hkPrompt, hkToWindow, hkAnswers,
            hkAccepted, hkMixed>>

NoDial == [phase |-> "none"]
Reply == [prompt |-> None]

Waits(v) == hkDial[v].phase = "prompted"
Moved(v, phase) == [hkDial EXCEPT ![v] = [hkDial[v] EXCEPT !.phase = phase]]
Becomes(v, phase) == hkDial' = Moved(v, phase)

\* A prompt of the id waits, travels, is on display or is being answered.
PromptOut(s) ==
    \/ \E i \in DOMAIN hkAnswers : hkAnswers[i].id = s
    \/ \E v \in Dial :
           /\ hkDial[v] # NoDial /\ hkDial[v].id = s
           /\ \/ v \in {hkTest, hkPending[s], hkPrompt}
              \/ \E i \in DOMAIN hkToWindow : hkToWindow[i].prompt = v

(***************************************************************************)
(* createHostVerifier.                                                     *)
(***************************************************************************)
\* The key is the one stored for the host.
HkKnows(v, s, h, k, test) ==
    /\ hkDial[v] = NoDial /\ hkKnown[h] = k
    /\ hkDial' = [hkDial EXCEPT ![v] = [id |-> s, host |-> h, key |-> k, test |-> test,
                                        phase |-> "accepted"]]
    /\ UNCHANGED <<hkTest, hkPending, hkKnown, hkPrompt, hkToWindow, hkAnswers, hkAccepted,
                   hkMixed>>

\* An unknown or a changed key: promptTestHostKey or promptHostKey.
HkPrompts(v, s, h, k, test) ==
    /\ hkDial[v] = NoDial /\ hkKnown[h] # k /\ Len(hkToWindow) < MaxMessages
    /\ hkDial' = [hkDial EXCEPT ![v] = [id |-> s, host |-> h, key |-> k, test |-> test,
                                        phase |-> "prompted"]]
    /\ hkTest' = IF test THEN v ELSE hkTest
    /\ hkPending' = IF test THEN hkPending ELSE [hkPending EXCEPT ![s] = v]
    /\ hkToWindow' = Append(hkToWindow, [prompt |-> v])
    /\ hkMixed' = (hkMixed \/ PromptOut(s))
    /\ UNCHANGED <<hkKnown, hkPrompt, hkAnswers, hkAccepted>>

\* A slot is free again once no part still refers to its prompt.
HkEnds(v) ==
    /\ hkDial[v] # NoDial /\ hkDial[v].phase \in {"accepted", "refused", "over"}
    /\ hkPrompt # v /\ hkPending[hkDial[v].id] # v /\ hkTest # v
    /\ \A i \in DOMAIN hkToWindow : hkToWindow[i].prompt # v
    /\ hkDial' = [hkDial EXCEPT ![v] = NoDial]
    /\ UNCHANGED <<hkTest, hkPending, hkKnown, hkPrompt, hkToWindow, hkAnswers, hkAccepted,
                   hkMixed>>

\* The dial ends before the answer (timeout, loss).  The finally of a test clears the
\* pending prompt, whoever waits for it; a connection keeps its own.
HkGivesUp(v) ==
    /\ Waits(v) /\ Becomes(v, "over")
    /\ hkTest' = IF hkDial[v].test THEN None ELSE hkTest
    /\ UNCHANGED <<hkPending, hkKnown, hkPrompt, hkToWindow, hkAnswers, hkAccepted, hkMixed>>

(***************************************************************************)
(* The window.                                                             *)
(***************************************************************************)
\* A prompt replaces the one on display; the reply to an answer clears it.
HkArrives ==
    /\ hkToWindow # <<>>
    /\ hkPrompt' = Head(hkToWindow).prompt
    /\ hkToWindow' = Tail(hkToWindow)
    /\ UNCHANGED <<hkDial, hkTest, hkPending, hkKnown, hkAnswers, hkAccepted, hkMixed>>

\* respondToHostKey; the dialog stays until the reply, and can be answered again.
HkAnswersPrompt(decision) ==
    /\ hkPrompt # None /\ hkAnswers = <<>> /\ Len(hkToWindow) < MaxMessages
    /\ hkAnswers' = <<[id |-> hkDial[hkPrompt].id, decision |-> decision]>>
    /\ hkAccepted' = IF decision = "accept"
                     THEN hkAccepted \cup {<<hkDial[hkPrompt].host, hkDial[hkPrompt].key>>}
                     ELSE hkAccepted
    /\ UNCHANGED <<hkDial, hkTest, hkPending, hkKnown, hkPrompt, hkToWindow, hkMixed>>

(***************************************************************************)
(* respondToHostKey of the manager and of the connection; save.            *)
(***************************************************************************)
\* The verifier goes on: the key is trusted in memory, then written; a refusal, or a
\* file that cannot be written, ends the dial.
Resolves(v, decision) ==
    IF decision = "accept"
    THEN /\ hkKnown' = [hkKnown EXCEPT ![hkDial[v].host] = hkDial[v].key]
         /\ hkDial' = IF Waits(v) THEN Moved(v, "saving") ELSE hkDial
    ELSE /\ hkDial' = IF Waits(v) THEN Moved(v, "refused") ELSE hkDial
         /\ UNCHANGED hkKnown

\* An id without a connection (a test that is over) is refused with NOT_FOUND, and the
\* prompt stays on display.
HkAnswered ==
    /\ hkAnswers # <<>> /\ hkAnswers' = Tail(hkAnswers)
    /\ LET answer == Head(hkAnswers)
           tested == hkTest # None /\ hkDial[hkTest].id = answer.id
           v == IF tested THEN hkTest ELSE hkPending[answer.id]
       IN /\ IF v = None THEN UNCHANGED <<hkDial, hkKnown>> ELSE Resolves(v, answer.decision)
          /\ hkTest' = IF tested THEN None ELSE hkTest
          /\ hkPending' = IF tested THEN hkPending ELSE [hkPending EXCEPT ![answer.id] = None]
          /\ hkToWindow' \in {Append(hkToWindow, Reply)} \cup
                             (IF v = None THEN {hkToWindow} ELSE {})
    /\ UNCHANGED <<hkPrompt, hkAccepted, hkMixed>>

HkSaved(v) ==
    /\ hkDial[v].phase = "saving" /\ Becomes(v, "accepted")
    /\ UNCHANGED <<hkTest, hkPending, hkKnown, hkPrompt, hkToWindow, hkAnswers, hkAccepted,
                   hkMixed>>

HkSaveFails(v) ==
    /\ hkDial[v].phase = "saving" /\ Becomes(v, "refused")
    /\ UNCHANGED <<hkTest, hkPending, hkKnown, hkPrompt, hkToWindow, hkAnswers, hkAccepted,
                   hkMixed>>

\* ServerConnection.disconnect rejects the prompt that waits.
HkDisconnects(s) ==
    /\ hkPending[s] # None
    /\ hkDial' = IF Waits(hkPending[s]) THEN Moved(hkPending[s], "refused") ELSE hkDial
    /\ hkPending' = [hkPending EXCEPT ![s] = None]
    /\ UNCHANGED <<hkTest, hkKnown, hkPrompt, hkToWindow, hkAnswers, hkAccepted, hkMixed>>

(***************************************************************************)
\* HostKeyStore.load: hosts trusted earlier.
HkInit ==
    /\ hkDial = [v \in Dial |-> NoDial]
    /\ hkTest = None /\ hkPending = [s \in Server |-> None]
    /\ hkKnown = [h \in Host |-> None]
    /\ hkPrompt = None /\ hkToWindow = <<>> /\ hkAnswers = <<>>
    /\ hkAccepted = {} /\ hkMixed = FALSE

\* What follows two prompts of one id is not explored.
HkBound == ~hkMixed

HkNext ==
    \/ HkArrives \/ HkAnswered
    \/ \E decision \in {"accept", "reject"} : HkAnswersPrompt(decision)
    \/ \E s \in Server : HkDisconnects(s)
    \/ \E v \in Dial :
           \/ \E s \in Server, h \in Host, k \in Key, test \in BOOLEAN :
                  HkKnows(v, s, h, k, test) \/ HkPrompts(v, s, h, k, test)
           \/ HkEnds(v) \/ HkGivesUp(v) \/ HkSaved(v) \/ HkSaveFails(v)

(***************************************************************************)
(* Properties.                                                             *)
(***************************************************************************)
HkTypeOK ==
    /\ hkTest \in Dial \cup {None} /\ hkPrompt \in Dial \cup {None}
    /\ hkPending \in [Server -> Dial \cup {None}]
    /\ hkKnown \in [Host -> Key \cup {None}]
    /\ hkAccepted \subseteq Host \X Key
    /\ Len(hkAnswers) <= 1 /\ hkMixed \in BOOLEAN

\* A key is trusted for a host only when the user accepted that key of that host on
\* display, and no dial goes on with another one - unless two prompts of one server
\* id met, which the answer cannot tell apart.
HkTrustIsTheUsers ==
    ~hkMixed =>
        /\ \A h \in Host : hkKnown[h] # None => <<h, hkKnown[h]>> \in hkAccepted
        /\ \A v \in Dial : hkDial[v] # NoDial /\ hkDial[v].phase = "accepted" =>
               <<hkDial[v].host, hkDial[v].key>> \in hkAccepted
===============================================================================
