------------------------------ MODULE Glasses -------------------------------
(***************************************************************************)
(* The mailboxes of the smart glasses, for one PC (src/glasses).  A        *)
(* question sent through the relay is registered in glasses_asks, handed   *)
(* to a routine by webhook, answered into its document and fetched by the  *)
(* glasses with /glasses/reply.  The answer to any other question goes to  *)
(* glasses_answers, where the bridge in the PC's network pulls it and      *)
(* acknowledges it.  Documents carry an expiry; Firestore removes expired  *)
(* ones some time later.                                                   *)
(*                                                                         *)
(* A database call and the clock readings around it are one step.  Request *)
(* ids are numbers in the order of their document ids.  An answer is its   *)
(* number; 0 is the empty text, and an expiry of 0 is no document.         *)
(***************************************************************************)
EXTENDS Naturals, FiniteSets

CONSTANTS Rids,        \* request ids
          RelayRids,   \* those asked through the relay
          Puts,        \* answers that may be under way at once
          Takes,       \* fetches of replies that may be under way at once
          None,
          TTL, Grace,  \* DefaultTTL, DeliveredGrace
          MaxItems,    \* answers that one pull returns
          FetchLimit,  \* documents that one pull looks at
          MaxTime, MaxAnswers, MaxAsks, MaxFaults  \* bounds

ASSUME GlassesAssumption ==
  /\ Rids \subseteq Nat /\ RelayRids \subseteq Rids /\ None \notin Rids
  /\ TTL \in Nat \ {0} /\ Grace \in Nat \ {0}
  /\ MaxItems \in Nat /\ FetchLimit \in Nat
  /\ MaxTime \in Nat /\ MaxAnswers \in Nat /\ MaxAsks \in Nat /\ MaxFaults \in Nat

VARIABLES
  now,
  askExp,     \* glasses_asks: expire_at,
  askText,    \* answer
  delivered,  \* and which of them have delivered_at
  boxExp,     \* glasses_answers: expire_at,
  boxText,    \* text
  boxTime,    \* and created_at
  send,       \* asks that are registered and whose webhook is under way
  knows,      \* questions the routine has been given
  apc, arid, atext,        \* PutAnswer: where it stands, its id and text
  tpc, trid, ttext, texp,  \* TakeAskReply: where it stands, what it has read
  told,       \* answers that fetches have returned
  pulled,     \* ids the bridge has fetched and not yet acknowledged
  acking,     \* ids that an acknowledgement has yet to delete
  seen,       \* answers the bridge has fetched
  nanswers, nasks, faults,
  lapsed,     \* relayed questions that have run out at some time
  promise,    \* the expires_at reported for the last answer
  first,      \* 1 + when a fetch first took that answer; 0 if none did
  crossed,    \* ids answered while a fetch stood between read and update
  rewritten,  \* ids answered while the bridge held an answer of theirs
  passed      \* pulls that have passed the present answer over

asks == <<askExp, askText, delivered>>
box == <<boxExp, boxText, boxTime>>
answering == <<apc, arid, atext>>
taking == <<tpc, trid, ttext, texp>>
bridge == <<pulled, acking, seen>>
ghost == <<promise, first, crossed, rewritten, passed>>
vars == <<now, asks, box, send, knows, answering, taking, told, bridge,
          nanswers, nasks, faults, lapsed, ghost>>

Least(a, b) == IF a < b THEN a ELSE b
Fault == faults < MaxFaults /\ faults' = faults + 1

\* askDoc: the document exists and has not expired.
Alive(r) == askExp[r] > now
\* The answers that query may return.
Fresh == {r \in Rids : boxExp[r] > now}
\* Where("pc", "==", pc).Limit(fetchLimit): by document id, expired or not
Fetched ==
  {r \in Rids : /\ boxExp[r] # 0
                /\ Cardinality({q \in Rids : q < r /\ boxExp[q] # 0}) < FetchLimit}

\* Questions that have run out are remembered, whichever step it was.
Lapse(exp, time) == lapsed' = lapsed \cup {r \in Rids : exp[r] # 0 /\ exp[r] <= time}

----------------------------------------------------------------------------

Init ==
  /\ now = 0
  /\ askExp = [r \in Rids |-> 0] /\ askText = [r \in Rids |-> 0] /\ delivered = {}
  /\ boxExp = [r \in Rids |-> 0] /\ boxText = [r \in Rids |-> 0]
  /\ boxTime = [r \in Rids |-> 0]
  /\ send = {} /\ knows = Rids \ RelayRids
  /\ apc = [h \in Puts |-> "idle"] /\ arid = [h \in Puts |-> None]
  /\ atext = [h \in Puts |-> 0]
  /\ tpc = [t \in Takes |-> "idle"] /\ trid = [t \in Takes |-> None]
  /\ ttext = [t \in Takes |-> 0] /\ texp = [t \in Takes |-> 0]
  /\ told = [r \in Rids |-> {}]
  /\ pulled = {} /\ acking = {} /\ seen = [r \in Rids |-> {}]
  /\ nanswers = 0 /\ nasks = 0 /\ faults = 0
  /\ lapsed = {} /\ promise = [r \in Rids |-> 0] /\ first = [r \in Rids |-> 0]
  /\ crossed = {} /\ rewritten = {} /\ passed = [r \in Rids |-> 0]

----------------------------------------------------------------------------
(* The clock, and Firestore's TTL policy.                                  *)

Tick ==
  /\ now < MaxTime
  /\ now' = now + 1
  /\ Lapse(askExp, now + 1)
  /\ UNCHANGED <<asks, box, send, knows, answering, taking, told, bridge,
                 nanswers, nasks, faults, ghost>>

SweepAsk(r) ==
  /\ askExp[r] # 0 /\ ~Alive(r)
  /\ askExp' = [askExp EXCEPT ![r] = 0]
  /\ askText' = [askText EXCEPT ![r] = 0]
  /\ delivered' = delivered \ {r}
  /\ UNCHANGED <<now, box, send, knows, answering, taking, told, bridge,
                 nanswers, nasks, faults, lapsed, ghost>>

DeleteAnswer(r) ==
  /\ boxExp' = [boxExp EXCEPT ![r] = 0]
  /\ boxText' = [boxText EXCEPT ![r] = 0]
  /\ boxTime' = [boxTime EXCEPT ![r] = 0]

SweepAnswer(r) ==
  /\ boxExp[r] # 0 /\ boxExp[r] <= now
  /\ DeleteAnswer(r)
  /\ UNCHANGED <<now, asks, send, knows, answering, taking, told, bridge,
                 nanswers, nasks, faults, lapsed, ghost>>

----------------------------------------------------------------------------
(* handleAsk: register, then the webhook.                                  *)

Register(r) ==
  /\ askExp' = [askExp EXCEPT ![r] = now + TTL]
  /\ askText' = [askText EXCEPT ![r] = 0]
  /\ delivered' = delivered \ {r}

\* Mutant of RegisterAsk: its error is not looked at.
RegisterAskUnchecked(r) ==
  /\ r \in RelayRids \ send /\ nasks < MaxAsks
  /\ nasks' = nasks + 1
  /\ send' = send \cup {r}
  /\ \/ Register(r) /\ faults' = faults
     \/ (Register(r) \/ UNCHANGED asks) /\ Fault
  /\ UNCHANGED <<now, box, knows, answering, taking, told, bridge, nanswers,
                 lapsed, ghost>>

\* RegisterAsk; an error ends the request, whether or not it took effect
RegisterAsk(r) ==
  /\ r \in RelayRids \ send /\ nasks < MaxAsks
  /\ nasks' = nasks + 1
  /\ \/ Register(r) /\ send' = send \cup {r} /\ faults' = faults
     \/ (Register(r) \/ UNCHANGED asks) /\ send' = send /\ Fault
  /\ UNCHANGED <<now, box, knows, answering, taking, told, bridge, nanswers,
                 lapsed, ghost>>

\* webhook.Send; a failed call may have reached the routine
Webhook(r) ==
  /\ r \in send
  /\ send' = send \ {r}
  /\ \/ knows' = knows \cup {r} /\ faults' = faults
     \/ knows' = knows /\ Fault
  /\ UNCHANGED <<now, asks, box, answering, taking, told, bridge, nanswers,
                 nasks, lapsed, ghost>>

----------------------------------------------------------------------------
(* PutAnswer, called by the routine for a question it has been given.      *)

AnswerDone(h) ==
  /\ apc' = [apc EXCEPT ![h] = "idle"]
  /\ arid' = [arid EXCEPT ![h] = None]
  /\ atext' = [atext EXCEPT ![h] = 0]

\* The registration check, and AnswerAsk's look at the question
PutAnswer(h, r) ==
  /\ apc[h] = "idle" /\ r \in knows /\ nanswers < MaxAnswers
  /\ nanswers' = nanswers + 1
  /\ \/ /\ apc' = [apc EXCEPT ![h] = IF Alive(r) THEN "update" ELSE "put"]
        /\ arid' = [arid EXCEPT ![h] = r]
        /\ atext' = [atext EXCEPT ![h] = nanswers + 1]
        /\ faults' = faults
     \/ Fault /\ UNCHANGED answering
  /\ UNCHANGED <<now, asks, box, send, knows, taking, told, bridge, nasks,
                 lapsed, ghost>>

\* The answer is stored in its question, and its expiry is reported.
Store(h) ==
  LET r == arid[h]
  IN  /\ askExp' = [askExp EXCEPT ![r] = now + TTL]
      /\ askText' = [askText EXCEPT ![r] = atext[h]]
      /\ promise' = [promise EXCEPT ![r] = now + TTL]
      /\ first' = [first EXCEPT ![r] = 0]
      /\ crossed' = IF \E t \in Takes : tpc[t] = "mark" /\ trid[t] = r
                      THEN crossed \cup {r} ELSE crossed \ {r}

\* AnswerAsk's update; it fails if the document is gone
AnswerAsk(h) ==
  /\ apc[h] = "update"
  /\ \/ askExp[arid[h]] # 0 /\ Store(h) /\ faults' = faults
     \/ askExp[arid[h]] # 0 /\ Store(h) /\ Fault
     \/ UNCHANGED <<askExp, askText, promise, first, crossed>> /\ Fault
     \/ /\ askExp[arid[h]] = 0
        /\ UNCHANGED <<askExp, askText, promise, first, crossed, faults>>
  /\ AnswerDone(h)
  /\ UNCHANGED <<now, delivered, box, send, knows, taking, told, bridge,
                 nanswers, nasks, lapsed, rewritten, passed>>

Leave(h) ==
  LET r == arid[h]
  IN  /\ boxExp' = [boxExp EXCEPT ![r] = now + TTL]
      /\ boxText' = [boxText EXCEPT ![r] = atext[h]]
      /\ boxTime' = [boxTime EXCEPT ![r] = now]
      /\ rewritten' = IF r \in pulled \cup acking THEN rewritten \cup {r} ELSE rewritten
      /\ passed' = [passed EXCEPT ![r] = 0]

\* Put: whatever the box holds under this id is overwritten
Put(h) ==
  /\ apc[h] = "put"
  /\ \/ Leave(h) /\ faults' = faults
     \/ (Leave(h) \/ UNCHANGED <<box, rewritten, passed>>) /\ Fault
  /\ AnswerDone(h)
  /\ UNCHANGED <<now, asks, send, knows, taking, told, bridge, nanswers, nasks,
                 lapsed, promise, first, crossed>>

----------------------------------------------------------------------------
(* TakeAskReply, polled by the glasses.                                    *)

\* A fetch takes the answer x of r, and returns it.
Taken(r, x) == first' = [first EXCEPT ![r] = IF x = askText[r] /\ @ = 0 THEN now + 1 ELSE @]
Tell(r, x) == told' = [told EXCEPT ![r] = @ \cup {x}]

\* Mutant of TakeAskReply: only what has been delivered is returned.
TakeDeliveredOnly(t, r) ==
  /\ tpc[t] = "idle" /\ r \in RelayRids
  /\ Alive(r) /\ askText[r] # 0
  /\ r \in delivered /\ Taken(r, askText[r]) /\ Tell(r, askText[r])
  /\ UNCHANGED <<now, asks, box, send, knows, answering, taking, bridge, nanswers,
                 nasks, faults, lapsed, promise, crossed, rewritten, passed>>

\* Mutant of TakeAskReply: an empty answer is returned like any other.
TakeEmptyToo(t, r) ==
  /\ tpc[t] = "idle" /\ r \in RelayRids
  /\ Alive(r) /\ r \notin delivered
  /\ tpc' = [tpc EXCEPT ![t] = "mark"]
  /\ trid' = [trid EXCEPT ![t] = r]
  /\ ttext' = [ttext EXCEPT ![t] = askText[r]]
  /\ texp' = [texp EXCEPT ![t] = askExp[r]]
  /\ UNCHANGED <<now, asks, box, send, knows, answering, told, bridge, nanswers,
                 nasks, faults, lapsed, ghost>>

\* The read: nothing to return before there is an answer, nothing to update
\* once it is marked
TakeAskReply(t, r) ==
  /\ tpc[t] = "idle" /\ r \in RelayRids
  /\ Alive(r) /\ askText[r] # 0
  /\ \/ /\ r \in delivered
        /\ Taken(r, askText[r]) /\ Tell(r, askText[r]) /\ UNCHANGED taking
     \/ /\ r \notin delivered
        /\ tpc' = [tpc EXCEPT ![t] = "mark"]
        /\ trid' = [trid EXCEPT ![t] = r]
        /\ ttext' = [ttext EXCEPT ![t] = askText[r]]
        /\ texp' = [texp EXCEPT ![t] = askExp[r]]
        /\ UNCHANGED <<told, first>>
  /\ UNCHANGED <<now, asks, box, send, knows, answering, bridge, nanswers, nasks,
                 faults, lapsed, promise, crossed, rewritten,
                 passed>>

\* Mutant of Shortened: the document expires at once.
ShortenedToNow(t) == now

\* grace.Before(exp), with the expiry that was read
Shortened(t) == Least(texp[t], now + Grace)

Mark(t) ==
  /\ askExp' = [askExp EXCEPT ![trid[t]] = Shortened(t)]
  /\ delivered' = delivered \cup {trid[t]}
  /\ Lapse(askExp', now)
  /\ Taken(trid[t], ttext[t])

\* The update; it fails if the document is gone, and then nothing is returned
MarkDelivered(t) ==
  /\ tpc[t] = "mark"
  /\ \/ /\ askExp[trid[t]] # 0
        /\ Mark(t) /\ Tell(trid[t], ttext[t]) /\ faults' = faults
     \/ /\ askExp[trid[t]] # 0
        /\ Mark(t) \/ UNCHANGED <<askExp, delivered, lapsed, first>>
        /\ told' = told /\ Fault
     \/ /\ askExp[trid[t]] = 0
        /\ UNCHANGED <<askExp, delivered, lapsed, told, first, faults>>
  /\ tpc' = [tpc EXCEPT ![t] = "idle"]
  /\ trid' = [trid EXCEPT ![t] = None]
  /\ ttext' = [ttext EXCEPT ![t] = 0]
  /\ texp' = [texp EXCEPT ![t] = 0]
  /\ UNCHANGED <<now, askText, box, send, knows, answering, bridge, nanswers,
                 nasks, promise, crossed, rewritten, passed>>

----------------------------------------------------------------------------
(* The bridge: Pull, then Ack of what it was given.                        *)

\* The oldest of the fresh documents looked at, at most MaxItems
Oldest(S) ==
  /\ S \subseteq Fetched \cap Fresh
  /\ \A r \in S, q \in (Fetched \cap Fresh) \ S : boxTime[r] <= boxTime[q]
  /\ Cardinality(S) = Least(MaxItems, Cardinality(Fetched \cap Fresh))

\* A pull that hands out S passes over the other fresh answers the bridge has
\* not had.
PassOver(S) ==
  passed' = [r \in Rids |-> IF r \in Fresh \ S /\ boxText[r] \notin seen[r]
                              THEN passed[r] + 1 ELSE passed[r]]

\* Mutant of Pull: the bridge is to acknowledge what was cut off, too.
PullAcksAll ==
  /\ pulled = {} /\ acking = {}
  /\ \E S \in SUBSET Rids :
       /\ S # {} /\ Oldest(S) /\ PassOver(S)
       /\ seen' = [r \in Rids |-> IF r \in S THEN seen[r] \cup {boxText[r]} ELSE seen[r]]
  /\ pulled' = Fetched \cap Fresh
  /\ UNCHANGED <<now, asks, box, send, knows, answering, taking, told, acking,
                 nanswers, nasks, faults, lapsed, promise, first, crossed, rewritten>>

\* pullLoop asks again while there is nothing.
Pull ==
  /\ pulled = {} /\ acking = {}
  /\ \E S \in SUBSET Rids :
       /\ S # {} /\ Oldest(S) /\ PassOver(S)
       /\ pulled' = S
       /\ seen' = [r \in Rids |-> IF r \in S THEN seen[r] \cup {boxText[r]} ELSE seen[r]]
  /\ UNCHANGED <<now, asks, box, send, knows, answering, taking, told, acking,
                 nanswers, nasks, faults, lapsed, promise, first, crossed, rewritten>>

\* handleAck arrives; or the bridge loses it and pulls again
Ack ==
  /\ pulled # {}
  /\ pulled' = {}
  /\ \/ acking' = pulled /\ faults' = faults
     \/ acking' = {} /\ Fault
  /\ UNCHANGED <<now, asks, box, send, knows, answering, taking, told, seen,
                 nanswers, nasks, lapsed, ghost>>

\* Mutant of AckOne: the document is not found.
AckOneSkips(r) ==
  /\ r \in acking
  /\ acking' = acking \ {r}
  /\ UNCHANGED <<now, asks, box, send, knows, answering, taking, told, pulled, seen,
                 nanswers, nasks, faults, lapsed, ghost>>

\* Ack deletes one document after the other and stops at an error.
AckOne(r) ==
  /\ r \in acking
  /\ \/ DeleteAnswer(r) /\ acking' = acking \ {r} /\ faults' = faults
     \/ (DeleteAnswer(r) \/ UNCHANGED box) /\ acking' = {} /\ Fault
  /\ UNCHANGED <<now, asks, send, knows, answering, taking, told, pulled, seen,
                 nanswers, nasks, lapsed, ghost>>

----------------------------------------------------------------------------

Next ==
  \/ Tick \/ Pull \/ Ack
  \/ \E r \in Rids : SweepAsk(r) \/ SweepAnswer(r) \/ RegisterAsk(r) \/ Webhook(r) \/ AckOne(r)
  \/ \E h \in Puts : AnswerAsk(h) \/ Put(h) \/ \E r \in Rids : PutAnswer(h, r)
  \/ \E t \in Takes : MarkDelivered(t) \/ \E r \in Rids : TakeAskReply(t, r)

Spec == Init /\ [][Next]_vars

\* The glasses poll, and their requests run to their end; nobody has to ask, to
\* answer, to let time pass or to remove what has expired.
Fairness ==
  /\ \A r \in Rids : WF_vars(\E t \in Takes : TakeAskReply(t, r))
  /\ \A t \in Takes : WF_vars(MarkDelivered(t))

FairSpec == Spec /\ Fairness

----------------------------------------------------------------------------

\* Types; an answer or a fetch that is under way knows its question and has
\* something to store or to return.
TypeOK ==
  /\ now \in 0..MaxTime
  /\ askExp \in [Rids -> Nat] /\ askText \in [Rids -> Nat] /\ delivered \subseteq Rids
  /\ boxExp \in [Rids -> Nat] /\ boxText \in [Rids -> Nat] /\ boxTime \in [Rids -> Nat]
  /\ send \subseteq RelayRids /\ knows \subseteq Rids
  /\ apc \in [Puts -> {"idle", "update", "put"}]
  /\ arid \in [Puts -> Rids \cup {None}] /\ atext \in [Puts -> Nat]
  /\ tpc \in [Takes -> {"idle", "mark"}]
  /\ trid \in [Takes -> Rids \cup {None}]
  /\ ttext \in [Takes -> Nat] /\ texp \in [Takes -> Nat]
  /\ told \in [Rids -> SUBSET Nat]
  /\ pulled \subseteq Rids /\ acking \subseteq Rids /\ seen \in [Rids -> SUBSET Nat]
  /\ nanswers \in 0..MaxAnswers /\ nasks \in 0..MaxAsks /\ faults \in 0..MaxFaults
  /\ lapsed \subseteq Rids /\ promise \in [Rids -> Nat] /\ first \in [Rids -> Nat]
  /\ crossed \subseteq Rids /\ rewritten \subseteq Rids /\ passed \in [Rids -> Nat]
  /\ \A h \in Puts : apc[h] # "idle" => arid[h] \in Rids /\ atext[h] # 0
  /\ \A t \in Takes : tpc[t] # "idle" => trid[t] \in Rids /\ ttext[t] # 0 /\ texp[t] # 0

\* "回答が先に届いても振り分けられるよう、webhook より前に登録する" (handleAsk):
\* unless its question has run out, no answer to a relayed question ever gets
\* into the bridge's box, where the glasses would not find it.
RelayAnswerStaysOffBridge ==
  \A r \in RelayRids : boxExp[r] # 0 => r \in lapsed

\* An answer keeps the expiry that PutAnswer reported until a fetch takes it, and
\* from then on stays for DeliveredGrace or the rest of that time, however many
\* fetches overlap and whichever of them fail; only an answer that replaces another one while a fetch has
\* read the document but not yet updated it can get that fetch's older expiry.
AnswerKept ==
  \A r \in RelayRids \ crossed :
    askText[r] # 0 =>
      askExp[r] >= IF first[r] = 0 THEN promise[r]
                   ELSE Least(promise[r], first[r] - 1 + Grace)

\* No answer is deleted unseen before it expires, although pulling and
\* acknowledging are two requests and a pull is cut to MaxItems; only an answer
\* put under an id the bridge has just fetched can be.
BridgeLosesNothing ==
  [][\A r \in Rids :
       (boxExp[r] > now /\ boxExp'[r] = 0) => boxText[r] \in seen[r] \/ r \in rewritten]_vars

\* The glasses get the answer to a question unless the question runs out or is
\* asked anew before; an answer that replaces another one is got, too.
RelayReplyArrives ==
  \A r \in RelayRids :
    (askText[r] # 0 /\ askText[r] \notin told[r])
      ~> (askText[r] \in told[r] \/ askText[r] = 0 \/ r \in lapsed)

\* A fresh answer is passed over only for others: a pull that returns something
\* without it returns an answer for the first time, or one whose acknowledgement
\* failed, of which there are at most MaxItems for each failure.  (How long it
\* takes is open: a pull may return nothing because of expired documents, see
\* FreshIsFetched.)
PassedOverForOthers ==
  \A r \in Rids :
    passed[r] <= Cardinality(UNION {seen[q] : q \in Rids \ {r}}) + MaxItems * faults

\* "期限切れが並んでいても新しい分を取りこぼさないようにする" (fetchLimit): a pull
\* finds fresh answers when there are any.
FreshIsFetched == Fresh # {} => Fresh \cap Fetched # {}
=============================================================================
