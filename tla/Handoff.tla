-------------------------------- MODULE Handoff --------------------------------
(***************************************************************************)
(* One turn of the agent in a WhatsApp chat after another, from the message *)
(* it answers to what the customer gets: the hook of handoff.py that turns   *)
(* an answer into a ticket and a holding message, and the guards plugin.py   *)
(* puts around the adapter, which tell the admin group of an error.          *)
(*                                                                         *)
(* The agent, state.db, the ticket API and the bridge are external: each    *)
(* call may fail, and a POST may do its work and lose its answer.           *)
(***************************************************************************)
EXTENDS Naturals

CONSTANTS AdminGroup,  \* HANDOFF_ADMIN_GROUP is set
          MaxTurns     \* bound: the turns of one life of the gateway

ASSUME HandoffAssumption == AdminGroup \in BOOLEAN /\ MaxTurns \in Nat

VARIABLES turns,     \* how many turns there were since the gateway started
          stage,     \* how far the present one is
          wants,     \* its message asks for a human
          latest,    \* the latest message of the session in state.db
          context,   \* what the hook read of the session: a message, or {} for nothing
          marker,    \* the confidence the answer claims for itself
          reply,     \* what is to be sent: the answer or the holding message
          ticket,    \* what the turn's ticket quotes: its "own" message or "other"; or None
          denied,    \* history: the ticket was asked for and not acknowledged
          raised,    \* history: something in the hook raised
          card,      \* the card in the admin group: its id is known, or not
          customer,  \* what the customer got in this turn
          alert      \* of an error the admin group was "told", the alert was "lost", or None

turnVars == <<turns, stage, wants, latest, context, marker, reply, ticket, denied, raised, card, customer, alert>>

None == "none"
Markers == {"low", None}  \* a high one has the effect of none
Messages == [own : BOOLEAN, human : BOOLEAN]  \* own: the one that is being answered

TurnInit ==
  /\ turns = 0 /\ stage = "idle"
  /\ wants = FALSE /\ latest = [own |-> TRUE, human |-> FALSE]
  /\ context = {} /\ marker = None /\ reply = None
  /\ ticket = None /\ denied = FALSE /\ raised = FALSE
  /\ card = None /\ customer = None /\ alert = None

-----------------------------------------------------------------------------
(* The agent                                                               *)

Anew(next, human) ==
  /\ stage' = next
  /\ wants' = human /\ latest' = [own |-> TRUE, human |-> human]
  /\ context' = {} /\ marker' = None /\ reply' = None
  /\ ticket' = None /\ denied' = FALSE /\ raised' = FALSE
  /\ card' = None /\ customer' = None /\ alert' = None

Ask(human) ==
  /\ stage \in {"idle", "over"} /\ turns < MaxTurns
  /\ turns' = turns + 1
  /\ Anew("thinking", human)

(* The gateway's memory goes, and with it the turn; its ticket and its card *)
(* stay where they are, and are no longer those of the present turn.       *)
Forget == turns' = 0 /\ Anew("idle", FALSE)

(* Another message of the session is stored while the agent thinks: in a    *)
(* group the listener files what it does not answer in the same session.    *)
Overheard(human) ==
  /\ stage = "thinking"
  /\ latest' = [own |-> FALSE, human |-> human]
  /\ UNCHANGED <<turns, stage, wants, context, marker, reply, ticket, denied, raised, card, customer, alert>>

(* The answer, with the marker the agent was told to put under it, or with  *)
(* none that can be read.                                                  *)
Answer(m) ==
  /\ stage = "thinking" /\ stage' = "answered"
  /\ marker' = m /\ reply' = "answer"
  /\ UNCHANGED <<turns, wants, latest, context, ticket, denied, raised, card, customer, alert>>

(* new_process_message_background: the agent's loop raised; the admin group *)
(* is told if it can be.                                                   *)
AgentRaises(told) ==
  /\ stage = "thinking" /\ stage' = "over"
  /\ alert' = IF told THEN "told" ELSE "lost"
  /\ UNCHANGED <<turns, wants, latest, context, marker, reply, ticket, denied, raised, card, customer>>

-----------------------------------------------------------------------------
(* The hook transform_llm_output                                           *)

(* _session_context: the latest message, whoever wrote it.                 *)
ReadContext(c) ==
  /\ stage = "answered" /\ stage' = "deciding"
  /\ context' = c
  /\ UNCHANGED <<turns, wants, latest, marker, reply, ticket, denied, raised, card, customer, alert>>
Context == ReadContext({latest})
NoContext == ReadContext({})

(* A session without a message of its user, of which nothing can be asked.  *)
Unquoted == [own |-> FALSE, human |-> FALSE]
NoMessage == ReadContext({Unquoted})

(* Mutant: both signs are needed.                                          *)
EscalateBoth(c) == marker = "low" /\ c.human

(* The knowledge base is asked only if one of the two holds already, so its *)
(* score decides nothing.                                                  *)
Escalate(c) == marker = "low" \/ c.human

LetThrough ==
  /\ stage = "deciding"
  /\ \A c \in context : ~Escalate(c)
  /\ stage' = "sending"
  /\ UNCHANGED <<turns, wants, latest, context, marker, reply, ticket, denied, raised, card, customer, alert>>

Quoting(c) == IF c.own THEN "own" ELSE "other"

(* The POST of the ticket: made, made but not acknowledged, or not made.    *)
Posted(made, known, text, carded) ==
  /\ stage = "deciding"
  /\ known => made
  /\ \E c \in context : Escalate(c) /\ ticket' = IF made THEN Quoting(c) ELSE None
  /\ denied' = ~known
  /\ reply' = text
  /\ stage' = IF carded THEN "carding" ELSE "sending"
  /\ UNCHANGED <<turns, wants, latest, context, marker, raised, card, customer, alert>>

(* Mutant: the customer is put off whether or not there is a ticket.       *)
PostTicketBlind(made, known) == Posted(made, known, "holding", known /\ AdminGroup)

PostTicket(made, known) == Posted(made, known, IF known THEN "holding" ELSE "answer", known /\ AdminGroup)

(* The card by the bridge: posted, posted with its id lost, or not posted.  *)
PostCard(c) ==
  /\ stage = "carding"
  /\ card' = c
  /\ stage' = IF c = "known" THEN "linking" ELSE "sending"
  /\ UNCHANGED <<turns, wants, latest, context, marker, reply, ticket, denied, raised, customer, alert>>

(* The PATCH that links the card to the ticket.                            *)
Link(c) ==
  /\ stage = "linking"
  /\ card' = c
  /\ stage' = "sending"
  /\ UNCHANGED <<turns, wants, latest, context, marker, reply, ticket, denied, raised, customer, alert>>

(* The outer except: whatever raises, the answer is sent.  An answer to the *)
(* POST that the hook cannot take raises when the ticket is made already.   *)
HookRaises(made) ==
  /\ stage \in {"answered", "deciding", "carding", "linking"}
  /\ IF made THEN stage = "deciding" /\ \E c \in context : Escalate(c) /\ ticket' = Quoting(c)
             ELSE UNCHANGED ticket
  /\ raised' = TRUE /\ reply' = "answer" /\ stage' = "sending"
  /\ UNCHANGED <<turns, wants, latest, context, marker, denied, card, customer, alert>>

Hook ==
  \/ Context \/ NoContext \/ NoMessage \/ LetThrough
  \/ \E made \in BOOLEAN : HookRaises(made)
  \/ \E made, known \in BOOLEAN : PostTicket(made, known)
  \/ \E c \in {None, "lost", "known"} : PostCard(c)
  \/ \E c \in {"known", "linked"} : Link(c)

-----------------------------------------------------------------------------
(* new_send                                                                *)

Sent ==
  /\ stage = "sending" /\ stage' = "over"
  /\ customer' = reply
  /\ UNCHANGED <<turns, wants, latest, context, marker, reply, ticket, denied, raised, card, alert>>

SendRaises(told) ==
  /\ stage = "sending" /\ stage' = "over"
  /\ alert' = IF told THEN "told" ELSE "lost"
  /\ UNCHANGED <<turns, wants, latest, context, marker, reply, ticket, denied, raised, card, customer>>

Agent ==
  \/ \E human \in BOOLEAN : Ask(human) \/ Overheard(human)
  \/ \E m \in Markers : Answer(m)
  \/ \E told \in BOOLEAN : AgentRaises(told) \/ SendRaises(told)
  \/ Hook \/ Sent

-----------------------------------------------------------------------------
(* The types of the variables.                                             *)
TurnTypeOK ==
  /\ turns \in 0 .. MaxTurns
  /\ stage \in {"idle", "thinking", "answered", "deciding", "carding", "linking", "sending", "over"}
  /\ {wants, denied, raised} \subseteq BOOLEAN /\ alert \in {None, "told", "lost"}
  /\ latest \in Messages /\ context \in {{}, {latest}, {Unquoted}}
  /\ marker \in Markers /\ reply \in {"answer", "holding", None}
  /\ customer \in {reply, None}
  /\ ticket \in {"own", "other", None}
  /\ card \in {None, "lost", "known", "linked"} /\ (card # None => ticket # None)

(* "The low-confidence answer never auto-sends" (handoff.py): the customer  *)
(* gets an answer that is not sure of itself, or an answer to a request for *)
(* a human, only if the session could not be read, the ticket was not       *)
(* acknowledged, the hook raised ("returns the marker-stripped text on any   *)
(* error"), or the request was not the latest message it read.              *)
HeldBack ==
  customer = "answer" /\ (marker = "low" \/ wants)
    => \/ context = {} \/ denied \/ raised
       \/ marker # "low" /\ \A c \in context : ~c.own

(* Who is told that "a team member will get back" has a ticket, and who has *)
(* a ticket and got the answer all the same has one that was not            *)
(* acknowledged, or a hook that raised after it.                            *)
PromiseKept ==
  /\ customer = "holding" => ticket # None
  /\ customer = "answer" /\ ticket # None => denied \/ raised
=============================================================================
