---------------------------------- MODULE Chat ----------------------------------
(***************************************************************************)
(* A conversation: the turns of a session, the reply of a provider to one  *)
(* request of a turn, frame by frame, and the panel that shows the turns.  *)
(* ChatTurn abstracts the reply and ChatPanel the turns, so that no two of *)
(* them share a variable.                                                  *)
(***************************************************************************)
EXTENDS ChatTurn

CONSTANTS
  Capacity, MaxCalls, MaxParts,             \* see ProviderStream
  MaxEvents, MaxAsks, MaxPanels, MaxPosted  \* see ChatPanel

VARIABLES
  provider, asked, said, ended, counted, ctx, at, headers, stop, pending, deltas,
  acc, text, final, request,
  mode, opened, building, session, modal, posted, builds, requests, stream, turn, owner,
  sent, taken, armed, shown, prompted, answer, away

replyVars == <<provider, asked, said, ended, counted, ctx, at, headers, stop, pending,
               deltas, acc, text, final, request>>
screenVars == <<mode, opened, building, session, modal, posted, builds, requests, stream,
                turn, owner, sent, taken, armed, shown, prompted, answer, away>>

Reply == INSTANCE ProviderStream
Panel == INSTANCE ChatPanel WITH pending <- modal, asked <- prompted, left <- away

ASSUME ChatAssumption == MaxCalls \in Nat /\ Panel!PanelAssumption

NoTurns ==
  /\ pc = "off" /\ iter = "off" /\ uses = "off" /\ texts = "off" /\ left = "off"
  /\ failed = "off" /\ chan = "off" /\ reader = "off" /\ cancelled = "off"
  /\ history = "off" /\ lastBy = "off" /\ overlapped = "off" /\ over = "off"
NoReply ==
  /\ provider = "off" /\ asked = "off" /\ said = "off" /\ ended = "off" /\ counted = "off"
  /\ ctx = "off" /\ at = "off" /\ headers = "off" /\ stop = "off" /\ pending = "off"
  /\ deltas = "off" /\ acc = "off" /\ text = "off" /\ final = "off" /\ request = "off"
NoPanel ==
  /\ mode = "off" /\ opened = "off" /\ building = "off" /\ session = "off" /\ modal = "off"
  /\ posted = "off" /\ builds = "off" /\ requests = "off" /\ stream = "off" /\ turn = "off"
  /\ owner = "off" /\ sent = "off" /\ taken = "off" /\ armed = "off" /\ shown = "off"
  /\ prompted = "off" /\ answer = "off" /\ away = "off"

\* See ReplyIsTheModels of ProviderStream (internal/ai/provider/provider.go:142-157).
ReplyIsTheModels == Reply!ReplyIsTheModels

\* See ModalIsWaitedFor of ChatPanel (tui/chat.go, tui/app.go).
ModalIsWaitedFor == Panel!ModalIsWaitedFor

\* See EventsShownInOrder of ChatPanel (tui/chat.go, tui/app.go).
EventsShownInOrder == Panel!EventsShownInOrder

\* See PatientTurnIsShown of ChatPanel (tui/chat.go, tui/app.go).
PatientTurnIsShown == Panel!PatientTurnIsShown
=================================================================================
