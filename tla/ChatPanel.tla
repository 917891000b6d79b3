------------------------------ MODULE ChatPanel ------------------------------
(***************************************************************************)
(* The terminal front-end's chat panel: tui/app.go, tui/chat.go and the    *)
(* consent bridge of tui/launch.go, with the turns of ChatTurn reduced to  *)
(* what the panel sees of them (events, write-consent requests, an end).   *)
(*                                                                         *)
(* Bubble Tea runs Update on one goroutine and every command on one of its *)
(* own, so a message reaches Update in any order with the others: the      *)
(* messages in flight are kept unordered, and one action is one Update.    *)
(***************************************************************************)
EXTENDS Integers, FiniteSets, Functions

CONSTANTS
  Turns,        \* the turns the user may start
  ChanCap,      \* capacity of a turn's event channel (16 in the code)
  MaxEvents,    \* bound: events of all turns together
  MaxAsks,      \* bound: consent requests of all turns together
  MaxPanels,    \* bound: how often the panel is opened
  MaxPosted     \* bound: undelivered screen changes of one kind

PanelAssumption ==
  /\ {ChanCap, MaxEvents, MaxPanels, MaxPosted} \subseteq Nat \ {0}
  /\ MaxAsks \in Nat
  /\ "none" \notin Turns

\* The launcher stands for the palette too, one key away from it.
Modes == {"launcher", "chat"}
Screens == {"open", "back"}
Panels == 1..MaxPanels

VARIABLES
  mode,      \* app.mode
  opened,    \* panels opened so far; the current one is the last
  building,  \* chatModel.building
  session,   \* chatModel.session: the panel it was built for, 0 for nil
  pending,   \* chatModel.pending: the turn whose modal is up, or "none"
  posted,    \* screen changes on their way to Update
  builds,    \* chat.New running, or its chatReadyMsg on its way
  requests,  \* the turns whose consentRequestMsg is on its way
  stream,    \* aiStreamMsgs on their way
  turn,      \* the engine's goroutine of each turn
  owner,     \* the session a turn was sent on
  sent,      \* events put on the turn's channel
  taken,     \* events taken from it
  armed,     \* readChatCmd goroutines waiting on it
  shown,     \* history: the last event Update folded into a transcript
  asked,     \* consent requests made
  answer,    \* the reply channel of the request: "none", "yes" or "no"
  left       \* history: the user left the panel the turn was sent from

panelVars == <<opened, building, session, pending>>
engineVars == <<turn, owner, sent, asked>>
readVars == <<taken, armed, shown, stream>>
vars == <<mode, panelVars, posted, builds, requests, engineVars, readVars,
          answer, left>>

StreamMsg == [turn : Turns, n : 1..MaxEvents + 1, ok : BOOLEAN]

TypeOK ==
  /\ mode \in Modes
  /\ opened \in 0..MaxPanels
  /\ building \in BOOLEAN
  /\ session \in 0..opened
  /\ pending \in Turns \cup {"none"}
  /\ posted \in [Screens -> 0..MaxPosted]
  /\ builds \in SUBSET Panels
  /\ requests \in SUBSET Turns
  /\ stream \in SUBSET StreamMsg
  /\ turn \in [Turns -> {"none", "running", "asking", "ended"}]
  /\ owner \in [Turns -> 0..opened]
  /\ sent \in [Turns -> 0..MaxEvents]
  /\ \A t \in Turns : taken[t] \in 0..sent[t]
  /\ \A t \in Turns : sent[t] - taken[t] <= ChanCap
  /\ armed \in [Turns -> Nat]
  /\ \A t \in Turns : shown[t] \in 0..taken[t]
  /\ asked \in [Turns -> 0..MaxAsks]
  /\ answer \in [Turns -> {"none", "yes", "no"}]
  /\ left \in SUBSET Turns

Init ==
  /\ mode = "launcher"
  /\ opened = 0
  /\ building = FALSE
  /\ session = 0
  /\ pending = "none"
  /\ posted = [s \in Screens |-> 0]
  /\ builds = {}
  /\ requests = {}
  /\ stream = {}
  /\ turn = [t \in Turns |-> "none"]
  /\ owner = [t \in Turns |-> 0]
  /\ sent = [t \in Turns |-> 0]
  /\ taken = [t \in Turns |-> 0]
  /\ armed = [t \in Turns |-> 0]
  /\ shown = [t \in Turns |-> 0]
  /\ asked = [t \in Turns |-> 0]
  /\ answer = [t \in Turns |-> "none"]
  /\ left = {}

-----------------------------------------------------------------------------
(* Keys *)

SumOf(f) == FoldFunction(+, 0, f)

Post(s) ==
  /\ posted[s] < MaxPosted
  /\ posted' = [posted EXCEPT ![s] = @ + 1]

Active(t) == turn[t] \in {"running", "asking"}

\* Every event of the turn has been shown, and its close.
Finished(t) == turn[t] = "ended" /\ armed[t] = 0 /\ ~\E m \in stream : m.turn = t

\* The palette answers Enter on /ai, and Enter on another row or Esc, with a
\* message and stays on screen until Update gets it.
KeyInPalette ==
  /\ mode = "launcher"
  /\ \E s \in Screens : Post(s)
  /\ UNCHANGED <<mode, panelVars, builds, requests, engineVars, readVars,
                 answer, left>>

\* handleKey, Esc.
KeyEsc ==
  /\ mode = "chat"
  /\ pending = "none"
  /\ Post("back")
  /\ UNCHANGED <<mode, panelVars, builds, requests, engineVars, readVars,
                 answer, left>>

\* handleKey, Enter: only a missing session and an open modal hold it back.
KeyEnter(t) ==
  /\ mode = "chat"
  /\ pending = "none"
  /\ session # 0
  /\ ~building
  /\ turn[t] = "none"
  /\ turn' = [turn EXCEPT ![t] = "running"]
  /\ owner' = [owner EXCEPT ![t] = session]
  /\ armed' = [armed EXCEPT ![t] = @ + 1]
  /\ UNCHANGED <<mode, panelVars, posted, builds, requests, sent, asked, taken,
                 shown, stream, answer, left>>

\* MUTANT of KeyConsent: the modal is not dismissed.
KeyConsentKept(d) ==
  /\ mode = "chat"
  /\ pending # "none"
  /\ answer' = [answer EXCEPT ![pending] = d]
  /\ UNCHANGED <<mode, panelVars, posted, builds, requests, engineVars,
                 readVars, left>>

\* handleConsentKey: y or s, n or Esc.
KeyConsent(d) ==
  /\ mode = "chat"
  /\ pending # "none"
  /\ answer' = [answer EXCEPT ![pending] = d]
  /\ pending' = "none"
  /\ UNCHANGED <<mode, opened, building, session, posted, builds, requests,
                 engineVars, readVars, left>>

-----------------------------------------------------------------------------
(* Messages *)

\* leaveChatMsg, closePaletteMsg or a row without a screen of its own.
DeliverBack ==
  /\ posted["back"] > 0
  /\ posted' = [posted EXCEPT !["back"] = @ - 1]
  /\ mode' = "launcher"
  /\ left' = left \cup {t \in Turns : turn[t] # "none"}
  /\ UNCHANGED <<panelVars, builds, requests, engineVars, readVars, answer>>

\* paletteSelectedMsg for /ai: a new chatModel replaces the old one, with its
\* pending request, whatever the mode.
DeliverOpen ==
  /\ posted["open"] > 0
  /\ opened < MaxPanels
  /\ posted' = [posted EXCEPT !["open"] = @ - 1]
  /\ mode' = "chat"
  /\ opened' = opened + 1
  /\ building' = TRUE
  /\ session' = 0
  /\ pending' = "none"
  /\ builds' = builds \cup {opened'}
  /\ left' = left \cup {t \in Turns : turn[t] # "none"}
  /\ UNCHANGED <<requests, engineVars, readVars, answer>>

\* chatReadyMsg: a session, or the reason there is none.
DeliverReady(p) ==
  /\ p \in builds
  /\ builds' = builds \ {p}
  /\ IF mode = "chat"
     THEN building' = FALSE /\ session' \in {session, p}
     ELSE UNCHANGED <<building, session>>
  /\ UNCHANGED <<mode, opened, pending, posted, requests, engineVars, readVars,
                 answer, left>>

\* MUTANT of Rearm: the reader is re-armed when the event was dropped, too.
RearmAlways(m) == m.ok

\* handleStream re-arms the reader unless the channel is closed; app.Update
\* drops the message, and with it the reader, outside the panel.
Rearm(m) == m.ok /\ mode = "chat"

DeliverStream(m) ==
  LET t == m.turn IN
  /\ m \in stream
  /\ stream' = stream \ {m}
  /\ shown' = IF mode = "chat" /\ m.ok THEN [shown EXCEPT ![t] = m.n] ELSE shown
  /\ armed' = IF Rearm(m) THEN [armed EXCEPT ![t] = @ + 1] ELSE armed
  /\ UNCHANGED <<mode, panelVars, posted, builds, requests, engineVars, taken,
                 answer, left>>

\* MUTANT of DeliverRequest: the message is not routed to the panel.
DeliverRequestUnrouted(t) ==
  /\ t \in requests
  /\ requests' = requests \ {t}
  /\ UNCHANGED <<mode, opened, building, session, pending, posted, builds,
                 answer, engineVars, readVars, left>>

\* consentRequestMsg: shown in the panel, denied outside it.
DeliverRequest(t) ==
  /\ t \in requests
  /\ requests' = requests \ {t}
  /\ IF mode = "chat"
     THEN pending' = t /\ UNCHANGED answer
     ELSE answer' = [answer EXCEPT ![t] = "no"] /\ UNCHANGED pending
  /\ UNCHANGED <<mode, opened, building, session, posted, builds, engineVars,
                 readVars, left>>

\* readChatCmd: takes the next event, or sees the channel closed.
Read(t) ==
  /\ armed[t] > 0
  /\ armed' = [armed EXCEPT ![t] = @ - 1]
  /\ \/ /\ taken[t] < sent[t]
        /\ taken' = [taken EXCEPT ![t] = @ + 1]
        /\ stream' = stream \cup {[turn |-> t, n |-> taken'[t], ok |-> TRUE]}
     \/ /\ turn[t] = "ended"
        /\ taken[t] = sent[t]
        /\ UNCHANGED taken
        /\ stream' = stream \cup {[turn |-> t, n |-> sent[t] + 1, ok |-> FALSE]}
  /\ UNCHANGED <<mode, panelVars, posted, builds, requests, engineVars, shown,
                 answer, left>>

-----------------------------------------------------------------------------
(* The engine's goroutine of a turn *)

\* out <- ev
Emit(t) ==
  /\ turn[t] = "running"
  /\ SumOf(sent) < MaxEvents
  /\ sent[t] - taken[t] < ChanCap
  /\ sent' = [sent EXCEPT ![t] = @ + 1]
  /\ UNCHANGED <<turn, owner, asked, requests, answer>>

\* ShowModal: a fresh reply channel, p.Send, and the wait begins.
Ask(t) ==
  /\ turn[t] = "running"
  /\ SumOf(asked) < MaxAsks
  /\ asked' = [asked EXCEPT ![t] = @ + 1]
  /\ turn' = [turn EXCEPT ![t] = "asking"]
  /\ requests' = requests \cup {t}
  /\ UNCHANGED <<owner, sent, answer>>

\* <-reply
Resume(t) ==
  /\ turn[t] = "asking"
  /\ answer[t] # "none"
  /\ turn' = [turn EXCEPT ![t] = "running"]
  /\ answer' = [answer EXCEPT ![t] = "none"]
  /\ UNCHANGED <<owner, sent, asked, requests>>

\* The terminal event is out and the channel is closed.
End(t) ==
  /\ turn[t] = "running"
  /\ turn' = [turn EXCEPT ![t] = "ended"]
  /\ UNCHANGED <<owner, sent, asked, requests, answer>>

Engine(t) ==
  /\ Emit(t) \/ Ask(t) \/ Resume(t) \/ End(t)
  /\ UNCHANGED <<mode, panelVars, posted, builds, readVars, left>>

Key ==
  \/ KeyInPalette
  \/ KeyEsc
  \/ \E t \in Turns : KeyEnter(t)
  \/ \E d \in {"yes", "no"} : KeyConsent(d)

Deliver ==
  \/ DeliverBack
  \/ DeliverOpen
  \/ \E p \in Panels : DeliverReady(p)
  \/ \E m \in StreamMsg : DeliverStream(m)
  \/ \E t \in Turns : DeliverRequest(t)
  \/ \E t \in Turns : Read(t)

Next == Key \/ Deliver \/ \E t \in Turns : Engine(t)

Spec == Init /\ [][Next]_vars

\* Fairness: commands run and their messages are delivered, a turn's goroutine
\* runs while it can, and a user with a modal in front of them answers it.
Fairness ==
  /\ WF_vars(DeliverBack)
  /\ \A p \in Panels : WF_vars(DeliverReady(p))
  /\ \A t \in Turns :
       /\ WF_vars(\E m \in StreamMsg : m.turn = t /\ DeliverStream(m))
       /\ WF_vars(DeliverRequest(t))
       /\ WF_vars(Read(t))
       /\ WF_vars(Engine(t))
  /\ WF_vars(\E d \in {"yes", "no"} : KeyConsent(d))

FairSpec == Spec /\ Fairness

-----------------------------------------------------------------------------
(* Properties *)

\* The modal on screen belongs to a tool goroutine that still waits for it:
\* a key is never sent to a goroutine that moved on, which would answer that
\* goroutine's next request, and never to a reply channel that is full, which
\* would freeze Update.
ModalIsWaitedFor ==
  pending # "none" =>
    /\ turn[pending] = "asking"
    /\ answer[pending] = "none"
    /\ pending \notin requests

\* A turn's events are folded into a transcript in the order they were sent,
\* none skipped in the middle: at most one reader of the turn is alive, and a
\* turn that lost its reader shows nothing more.
EventsShownInOrder ==
  [][\A t \in Turns : shown'[t] \in {shown[t], shown[t] + 1}]_vars

\* Unless the user leaves the panel or starts another turn on top of it, a
\* turn runs to its end and everything it sent is shown: the panel's queue,
\* the consent round trip and the bounded channel never lock each other.
PatientTurnIsShown ==
  \A t \in Turns :
    turn[t] = "running" ~>
      \/ Finished(t) /\ shown[t] = sent[t]
      \/ t \in left
      \/ \E u \in Turns \ {t} : Active(u)

==============================================================================
