-------------------------- MODULE Directives_proofs -------------------------
(***************************************************************************)
(* Proofs about one Publish stream, for any number of directives and       *)
(* providers: replies come in order and tell the truth, and a stream that  *)
(* ends leaves at most one directive in doubt.                             *)
(***************************************************************************)
EXTENDS Directives, FiniteSetTheorems, SequenceTheorems, TLAPS

-----------------------------------------------------------------------------
(* The inductive invariant. *)

\* The handler has replied to everything it took, except the directive in
\* hand; a handler that returned may have had one.
InHand ==
    /\ handler = "receiving" => Len(replies) = received
    /\ handler \in {"offering", "replying"} => Len(replies) + 1 = received /\ sent[received]
    /\ handler = "returned" => received \in {Len(replies), Len(replies) + 1}

\* What the providers have done about directive d is what code c says.
Told(d, c) ==
    IF c = "OK" THEN \E p \in DOMAIN Providers : AppliedTo(d) = {p} ELSE AppliedTo(d) = {}

\* No provider has taken the directive that is being offered, and the status
\* about to be sent is true.
CurrentInv ==
    /\ handler = "offering" => AppliedTo(received) = {} /\ offered >= 1
    /\ handler = "replying" => Told(received, code)

RepliesInv ==
    \A i \in DOMAIN replies : replies[i].id = i /\ Told(i, replies[i].code)

\* Only what was taken, and is valid, is ever applied.
AppliedInv ==
    \A d \in Ids : AppliedTo(d) # {} => d <= received /\ sent[d]

IInv == TypeOK /\ InHand /\ CurrentInv /\ RepliesInv /\ AppliedInv
-----------------------------------------------------------------------------
\* The constants' sizes.
LEMMA ProvidersSeq ==
    MaxDirectives \in Nat /\ Len(Providers) \in Nat /\ DOMAIN Providers = 1 .. Len(Providers)
<1> DEFINE S == {Providers[i] : i \in DOMAIN Providers}
<1>1. MaxDirectives \in Nat /\ Providers \in Seq(S)
  BY DirectivesAssumption
<1> HIDE DEF S
<1>2. QED
  BY <1>1

\* What the types say of the sizes of sequences and of counters.
LEMMA Sizes ==
    ASSUME TypeOK
    PROVE  /\ sent \in Seq(BOOLEAN)
           /\ Len(sent) \in Nat /\ DOMAIN sent = 1 .. Len(sent) /\ Len(sent) <= MaxDirectives
           /\ received \in Nat /\ received <= Len(sent)
           /\ offered \in Nat /\ offered <= Len(Providers) + 1
           /\ replies \in Seq([id : Ids, code : Codes])
           /\ Len(replies) \in Nat /\ DOMAIN replies = 1 .. Len(replies)
           /\ handler \in {"receiving", "offering", "replying", "returned"}
<1>1. /\ sent \in Seq(BOOLEAN) /\ Len(sent) <= MaxDirectives
      /\ received \in 0 .. Len(sent) /\ offered \in 0 .. Len(Providers) + 1
      /\ replies \in Seq([id : Ids, code : Codes])
      /\ handler \in {"receiving", "offering", "replying", "returned"}
  BY DEF TypeOK
<1>2. /\ Len(sent) \in Nat /\ DOMAIN sent = 1 .. Len(sent)
      /\ Len(replies) \in Nat /\ DOMAIN replies = 1 .. Len(replies)
  BY <1>1
<1>3. QED
  BY <1>1, <1>2, ProvidersSeq

\* A handler that leaves sent, applied and the replies alone keeps what is
\* said of them.
LEMMA AppliedSame ==
    ASSUME UNCHANGED applied
    PROVE  \A d : AppliedTo(d)' = AppliedTo(d) /\ \A c : Told(d, c)' <=> Told(d, c)
BY DEF AppliedTo, Told

LEMMA InitInv == Init => IInv
<1> SUFFICES ASSUME Init PROVE IInv
  OBVIOUS
<1>1. \A d : AppliedTo(d) = {}
  BY DEF Init, AppliedTo
<1>2. TypeOK
  <2>1. sent \in Seq(BOOLEAN) /\ replies \in Seq([id : Ids, code : Codes]) /\ Len(sent) = 0
    BY EmptySeq DEF Init
  <2>2. applied \in [DOMAIN Providers -> SUBSET Ids]
    BY DEF Init
  <2>3. /\ received \in 0 .. Len(sent) /\ offered \in 0 .. Len(Providers) + 1
        /\ Len(sent) <= MaxDirectives
    BY <2>1, ProvidersSeq DEF Init
  <2>4. QED
    BY <2>1, <2>2, <2>3 DEF Init, TypeOK, Codes
<1>3. InHand /\ CurrentInv /\ RepliesInv /\ AppliedInv
  BY <1>1 DEF Init, InHand, CurrentInv, RepliesInv, AppliedInv
<1>4. QED
  BY <1>2, <1>3 DEF IInv

\* What the producer does.
LEMMA ClientStep ==
    ASSUME IInv, (\E valid \in BOOLEAN : ClientSends(valid)) \/ ClientCloses
    PROVE  IInv'
<1> USE DEF IInv
<1>1. ASSUME NEW valid \in BOOLEAN, ClientSends(valid) PROVE IInv'
  <2>1. /\ UNCHANGED <<eof, received, handler, offered, code, applied, replies, result>>
        /\ sent \in Seq(BOOLEAN) /\ sent' = Append(sent, valid)
        /\ Len(sent) < MaxDirectives /\ received \in 0 .. Len(sent)
    BY <1>1 DEF ClientSends, TypeOK
  <2>2. /\ sent' \in Seq(BOOLEAN) /\ Len(sent') = Len(sent) + 1
        /\ \A d \in 1 .. Len(sent) : sent'[d] = sent[d]
    BY <2>1
  <2>3. TypeOK'
    <3>1. Len(sent') <= MaxDirectives /\ received' \in 0 .. Len(sent')
      BY <2>1, <2>2, ProvidersSeq
    <3>2. QED
      BY <2>1, <2>2, <3>1 DEF TypeOK
  <2>4. InHand'
    <3>1. handler \in {"offering", "replying"} => received \in 1 .. Len(sent)
      BY Sizes DEF InHand
    <3>2. QED
      BY <2>1, <2>2, <3>1 DEF InHand
  <2>5. CurrentInv' /\ RepliesInv'
    BY <2>1, AppliedSame DEF CurrentInv, RepliesInv
  <2>6. AppliedInv'
    BY <2>1, <2>2, AppliedSame DEF AppliedInv, Ids
  <2>7. QED
    BY <2>3, <2>4, <2>5, <2>6
<1>2. CASE ClientCloses
  <2>1. UNCHANGED <<sent, received, handler, offered, code, applied, replies, result>> /\ eof' = TRUE
    BY <1>2 DEF ClientCloses
  <2>2. QED
    BY <2>1, AppliedSame DEF TypeOK, InHand, CurrentInv, RepliesInv, AppliedInv
<1>3. QED
  BY <1>1, <1>2

\* Taking a directive, or failing to.
LEMMA RecvStep ==
    ASSUME IInv, Recv \/ RecvEOF \/ RecvFails
    PROVE  IInv'
<1> USE DEF IInv
<1>1. CASE Recv
  <2>1. /\ handler = "receiving" /\ received < Len(sent) /\ received' = received + 1
        /\ UNCHANGED <<sent, eof, code, applied, replies>>
        /\ received \in Nat /\ Len(replies) = received /\ Len(sent) <= MaxDirectives
        /\ received + 1 \in Ids
    <3>1. /\ handler = "receiving" /\ received < Len(sent) /\ received' = received + 1
          /\ UNCHANGED <<sent, eof, code, applied, replies>> /\ Len(replies) = received
      BY <1>1 DEF Recv, InHand
    <3>2. QED
      BY <3>1, Sizes, ProvidersSeq DEF Ids
  <2>2. TypeOK'
    <3>1. received' \in 0 .. Len(sent) /\ 1 \in 0 .. Len(Providers) + 1
      BY <2>1, Sizes, ProvidersSeq
    <3>2. QED
      BY <1>1, <2>1, <3>1 DEF Recv, Return, TypeOK
  <2>3. InHand'
    BY <1>1, <2>1, Sizes DEF Recv, Return, InHand
  <2>4. AppliedTo(received + 1) = {}
    BY <2>1 DEF AppliedInv
  <2>5. CurrentInv'
    <3>1. \/ handler' = "offering" /\ offered' = 1
          \/ handler' = "returned"
      BY <1>1 DEF Recv, Return
    <3>2. QED
      BY <2>1, <2>4, <3>1, AppliedSame DEF CurrentInv
  <2>6. RepliesInv'
    BY <2>1, AppliedSame DEF RepliesInv
  <2>7. AppliedInv'
    BY <2>1, AppliedSame DEF AppliedInv, Ids
  <2>8. QED
    BY <2>2, <2>3, <2>5, <2>6, <2>7
<1>2. CASE RecvEOF \/ RecvFails
  <2>1. /\ handler = "receiving" /\ handler' = "returned"
        /\ result' \in {"OK", "INTERNAL: transport"}
        /\ UNCHANGED <<sent, eof, received, offered, code, applied, replies>>
    BY <1>2 DEF RecvEOF, RecvFails, Return
  <2>2. QED
    BY <2>1, AppliedSame DEF TypeOK, InHand, CurrentInv, RepliesInv, AppliedInv
<1>3. QED
  BY <1>1, <1>2

\* Offering the directive to the providers.
LEMMA OfferStep ==
    ASSUME IInv, Accept \/ Refuse \/ Unhandled
    PROVE  IInv'
<1> USE DEF IInv
<1>1. CASE Accept
  <2>1. /\ handler = "offering" /\ handler' = "replying" /\ code' = "OK"
        /\ UNCHANGED <<sent, eof, received, offered, replies, result>>
        /\ offered \in DOMAIN Providers /\ received \in Ids
        /\ applied \in [DOMAIN Providers -> SUBSET Ids]
        /\ applied' = [applied EXCEPT ![offered] = @ \cup {received}]
        /\ Len(replies) + 1 = received /\ sent[received]
    <3>1. applied \in [DOMAIN Providers -> SUBSET Ids]
      BY DEF TypeOK
    <3>2. QED
      BY <1>1, <3>1, Sizes, ProvidersSeq DEF Accept, InHand, CurrentInv, Ids
  <2>2. /\ AppliedTo(received)' = {offered}
        /\ \A d : d # received => AppliedTo(d)' = AppliedTo(d)
    <3>1. AppliedTo(received) = {}
      BY <2>1 DEF CurrentInv
    <3>2. QED
      BY <2>1, <3>1 DEF AppliedTo
  <2>3. TypeOK'
    BY <2>1 DEF TypeOK, Codes
  <2>4. InHand'
    BY <2>1 DEF InHand
  <2>5. CurrentInv'
    BY <2>1, <2>2 DEF CurrentInv, Told
  <2>6. RepliesInv'
    <3> SUFFICES ASSUME NEW i \in DOMAIN replies
                 PROVE  replies[i].id = i /\ Told(i, replies[i].code)'
      BY <2>1 DEF RepliesInv
    <3>1. i # received
      BY <2>1, Sizes
    <3>2. QED
      BY <2>1, <2>2, <3>1 DEF RepliesInv, Told
  <2>7. AppliedInv'
    BY <2>1, <2>2, Sizes DEF AppliedInv, Ids
  <2>8. QED
    BY <2>3, <2>4, <2>5, <2>6, <2>7
<1>2. CASE Refuse
  <2>1. /\ handler = "offering" /\ offered <= Len(Providers) /\ offered' = offered + 1
        /\ UNCHANGED <<sent, eof, received, handler, code, applied, replies, result>>
    BY <1>2 DEF Refuse
  <2>2. TypeOK'
    <3>1. offered' \in 0 .. Len(Providers) + 1
      BY <2>1, Sizes, ProvidersSeq
    <3>2. QED
      BY <2>1, <3>1 DEF TypeOK
  <2>3. InHand' /\ RepliesInv' /\ AppliedInv'
    BY <2>1, AppliedSame DEF InHand, RepliesInv, AppliedInv
  <2>4. CurrentInv'
    BY <2>1, AppliedSame, Sizes DEF CurrentInv
  <2>5. QED
    BY <2>2, <2>3, <2>4
<1>3. CASE Unhandled
  <2>1. /\ handler = "offering" /\ handler' = "replying" /\ code' = "UNIMPLEMENTED"
        /\ UNCHANGED <<sent, eof, received, offered, applied, replies, result>>
    BY <1>3 DEF Unhandled
  <2>2. TypeOK' /\ InHand' /\ RepliesInv' /\ AppliedInv'
    BY <2>1, AppliedSame DEF TypeOK, Codes, InHand, RepliesInv, AppliedInv
  <2>3. CurrentInv'
    BY <2>1, AppliedSame DEF CurrentInv, Told
  <2>4. QED
    BY <2>2, <2>3
<1>4. QED
  BY <1>1, <1>2, <1>3

\* Replying, or failing to.
LEMMA ReplyStep ==
    ASSUME IInv, Reply \/ ReplyFails
    PROVE  IInv'
<1> USE DEF IInv
<1>1. CASE Reply
  <2> DEFINE r == [id |-> received, code |-> code]
  <2>1. /\ handler = "replying" /\ handler' = "receiving"
        /\ replies' = Append(replies, r)
        /\ UNCHANGED <<sent, eof, received, offered, code, applied, result>>
        /\ Len(replies) + 1 = received /\ replies \in Seq([id : Ids, code : Codes])
    BY <1>1 DEF Reply, TypeOK, InHand
  <2>2. r \in [id : Ids, code : Codes] /\ r.id = received /\ r.code = code
    <3>1. received \in Ids
      BY <2>1, Sizes, ProvidersSeq DEF Ids
    <3>2. QED
      BY <3>1 DEF TypeOK
  <2> HIDE DEF r
  <2>3. /\ replies' \in Seq([id : Ids, code : Codes]) /\ Len(replies') = received
        /\ replies'[received] = r
        /\ \A i \in DOMAIN replies' : i # received => i \in DOMAIN replies /\ replies'[i] = replies[i]
    BY <2>1, <2>2
  <2>4. TypeOK' /\ InHand' /\ AppliedInv'
    BY <2>1, <2>3, AppliedSame DEF TypeOK, InHand, AppliedInv
  <2>5. CurrentInv'
    BY <2>1 DEF CurrentInv
  <2>6. RepliesInv'
    <3> SUFFICES ASSUME NEW i \in DOMAIN replies'
                 PROVE  (replies[i].id = i /\ Told(i, replies[i].code))'
      BY DEF RepliesInv
    <3>1. CASE i = received
      BY <2>1, <2>2, <2>3, <3>1 DEF CurrentInv, Told, AppliedTo
    <3>2. CASE i # received
      BY <2>1, <2>3, <3>2 DEF RepliesInv, Told, AppliedTo
    <3>3. QED
      BY <3>1, <3>2
  <2>7. QED
    BY <2>4, <2>5, <2>6
<1>2. CASE ReplyFails
  <2>1. /\ handler = "replying" /\ handler' = "returned" /\ result' = "INTERNAL: transport"
        /\ UNCHANGED <<sent, eof, received, offered, code, applied, replies>>
    BY <1>2 DEF ReplyFails, Return
  <2>2. QED
    BY <2>1, AppliedSame DEF TypeOK, InHand, CurrentInv, RepliesInv, AppliedInv
<1>3. QED
  BY <1>1, <1>2

\* The invariant holds in every state of the stream.
THEOREM Inductive == Spec => []IInv
<1>1. IInv /\ [Next]_vars => IInv'
  <2> SUFFICES ASSUME IInv, [Next]_vars PROVE IInv'
    OBVIOUS
  <2>1. CASE Next
    BY <2>1, ClientStep, RecvStep, OfferStep, ReplyStep DEF Next, Handle
  <2>2. CASE UNCHANGED vars
    BY <2>2, AppliedSame
       DEF vars, IInv, TypeOK, InHand, CurrentInv, RepliesInv, AppliedInv
  <2>3. QED
    BY <2>1, <2>2
<1>2. QED
  BY InitInv, <1>1, PTL DEF Spec

\* Every variable keeps its type (grpc/adapter.go:54-78).
THEOREM TypeCorrect == Spec => []TypeOK
<1>1. IInv => TypeOK
  BY DEF IInv
<1>2. QED
  BY <1>1, Inductive, PTL

\* Replies come in the order of the directives, and OK is said of a directive
\* just when one provider took it (service.go:103-118).
THEOREM RepliesCorrect == Spec => []RepliesTell
<1>1. IInv => RepliesTell
  <2> SUFFICES ASSUME IInv, NEW i \in DOMAIN replies
               PROVE  /\ replies[i].id = i
                      /\ Cardinality(AppliedTo(i)) = IF replies[i].code = "OK" THEN 1 ELSE 0
    BY DEF RepliesTell
  <2>1. replies[i].id = i /\ Told(i, replies[i].code)
    BY DEF IInv, RepliesInv
  <2>2. QED
    BY <2>1, FS_EmptySet, FS_Singleton DEF Told
<1>2. QED
  BY <1>1, Inductive, PTL

\* A stream that ends leaves at most one directive applied without the producer
\* being told, and an invalid one is never applied (grpc/adapter.go:57-77).
THEOREM DoubtBounded == Spec => []AtMostOneUntold
<1>1. IInv => AtMostOneUntold
  <2> SUFFICES ASSUME IInv PROVE AtMostOneUntold
    OBVIOUS
  <2> DEFINE untold == {d \in Ids : AppliedTo(d) # {} /\ d > Len(replies)}
  <2>1. untold \subseteq {received}
    <3> SUFFICES ASSUME NEW d \in Ids, AppliedTo(d) # {}, d > Len(replies)
                 PROVE  d = received
      OBVIOUS
    <3>1. d <= received
      BY DEF IInv, AppliedInv
    <3>2. received <= Len(replies) + 1
      BY Sizes DEF IInv, InHand
    <3>3. QED
      BY <3>1, <3>2, Sizes, ProvidersSeq DEF Ids, IInv
  <2> HIDE DEF untold
  <2>2. Cardinality(untold) <= 1
    <3>1. untold = {} \/ untold = {received}
      BY <2>1
    <3>2. Cardinality({}) = 0 /\ Cardinality({received}) = 1
      BY FS_Singleton, FS_EmptySet
    <3>3. QED
      BY <3>1, <3>2
  <2>3. \A d \in DOMAIN sent : AppliedTo(d) # {} => sent[d]
    <3> SUFFICES ASSUME NEW d \in DOMAIN sent, AppliedTo(d) # {} PROVE sent[d]
      OBVIOUS
    <3>1. d \in Ids
      BY Sizes, ProvidersSeq DEF Ids, IInv
    <3>2. QED
      BY <3>1 DEF IInv, AppliedInv
  <2>4. QED
    BY <2>2, <2>3 DEF AtMostOneUntold, untold
<1>2. QED
  BY <1>1, Inductive, PTL
=============================================================================
