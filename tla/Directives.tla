----------------------------- MODULE Directives -----------------------------
(***************************************************************************)
(* One Publish stream (grpc/adapter.go:54-78 behind the validating stream  *)
(* of interceptors/validation.go): the producer sends directives without   *)
(* waiting for replies, the handler takes them one at a time, offers each  *)
(* to the providers in order (services/service.go:107-118) and replies.    *)
(*                                                                         *)
(* The transport is external: it delivers in order, and may fail.          *)
(***************************************************************************)
EXTENDS Naturals, Sequences, FiniteSets

CONSTANTS
    Providers,    \* the providers in the order they are registered: a sequence
    MaxDirectives \* bound: directives sent on the stream

ASSUME DirectivesAssumption ==
    /\ MaxDirectives \in Nat
    /\ Providers \in Seq({Providers[i] : i \in DOMAIN Providers})

VARIABLES
    sent,     \* validity of each directive the producer has sent; its id is its position
    eof,      \* the producer has half-closed the stream
    received, \* how many of them Recv has taken
    handler,  \* "receiving", "offering", "replying" or "returned"
    offered,  \* the provider the directive is offered to next
    code,     \* the status to reply with
    applied,  \* applied[p]: directives whose Send provider p returned nil for
    replies,  \* what the producer has been sent: [id, code]
    result    \* the status the stream ended with

vars == <<sent, eof, received, handler, offered, code, applied, replies, result>>

Ids == 1 .. MaxDirectives
Codes == {"OK", "UNIMPLEMENTED"}

Init ==
    /\ sent = <<>> /\ eof = FALSE /\ received = 0
    /\ handler = "receiving" /\ offered = 0 /\ code = "UNIMPLEMENTED"
    /\ applied = [i \in DOMAIN Providers |-> {}]
    /\ replies = <<>> /\ result = "none"

-----------------------------------------------------------------------------
\* The producer sends a directive, one that satisfies the message's
\* constraints or one that does not.
ClientSends(valid) ==
    /\ ~eof /\ Len(sent) < MaxDirectives
    /\ sent' = Append(sent, valid)
    /\ UNCHANGED <<eof, received, handler, offered, code, applied, replies, result>>

ClientCloses ==
    /\ ~eof /\ eof' = TRUE
    /\ UNCHANGED <<sent, received, handler, offered, code, applied, replies, result>>

\* The handler returns, and with it the stream ends.
Return(st) == handler' = "returned" /\ result' = st

\* str.Recv: the next directive, or the error its validation makes of it,
\* which Publish takes for an error of the transport.
Recv ==
    /\ handler = "receiving" /\ received < Len(sent)
    /\ received' = received + 1
    /\ IF sent[received + 1]
         THEN handler' = "offering" /\ offered' = 1 /\ UNCHANGED result
         ELSE Return("INTERNAL: invalid") /\ UNCHANGED offered
    /\ UNCHANGED <<sent, eof, code, applied, replies>>

\* io.EOF, once everything sent before it has been taken.
RecvEOF ==
    /\ handler = "receiving" /\ received = Len(sent) /\ eof
    /\ Return("OK")
    /\ UNCHANGED <<sent, eof, received, offered, code, applied, replies>>

\* The connection breaks while the handler is receiving.
RecvFails ==
    /\ handler = "receiving"
    /\ Return("INTERNAL: transport")
    /\ UNCHANGED <<sent, eof, received, offered, code, applied, replies>>

\* Mutant: the loop over the providers goes on after one has accepted.
MutAccept ==
    /\ handler = "offering" /\ offered <= Len(Providers)
    /\ applied' = [applied EXCEPT ![offered] = @ \cup {received}]
    /\ code' = "OK" /\ offered' = offered + 1
    /\ UNCHANGED <<sent, eof, received, handler, replies, result>>

\* A provider's Send returns nil: the directive is settled.
Accept ==
    /\ handler = "offering" /\ offered <= Len(Providers)
    /\ applied' = [applied EXCEPT ![offered] = @ \cup {received}]
    /\ handler' = "replying" /\ code' = "OK"
    /\ UNCHANGED <<sent, eof, received, offered, replies, result>>

\* Mutant: the loop does not end after the last provider.
MutRefuse ==
    /\ handler = "offering" /\ offered' = offered + 1
    /\ UNCHANGED <<sent, eof, received, handler, code, applied, replies, result>>

\* A provider's Send fails: the next one is asked.
Refuse ==
    /\ handler = "offering" /\ offered <= Len(Providers)
    /\ offered' = offered + 1
    /\ UNCHANGED <<sent, eof, received, handler, code, applied, replies, result>>

\* No provider took it.
Unhandled ==
    /\ handler = "offering" /\ offered > Len(Providers)
    /\ handler' = "replying" /\ code' = "UNIMPLEMENTED"
    /\ UNCHANGED <<sent, eof, received, offered, applied, replies, result>>

\* Mutant: a directive no provider took is not answered.
MutReply ==
    /\ handler = "replying"
    /\ replies' = IF code = "OK" THEN Append(replies, [id |-> received, code |-> code])
                                 ELSE replies
    /\ handler' = "receiving"
    /\ UNCHANGED <<sent, eof, received, offered, code, applied, result>>

\* str.Send, and on to the next directive.
Reply ==
    /\ handler = "replying"
    /\ replies' = Append(replies, [id |-> received, code |-> code])
    /\ handler' = "receiving"
    /\ UNCHANGED <<sent, eof, received, offered, code, applied, result>>

\* Mutant: a reply that cannot be sent is dropped and the loop goes on.
MutReplyFails ==
    /\ handler = "replying" /\ handler' = "receiving"
    /\ UNCHANGED <<sent, eof, received, offered, code, applied, replies, result>>

ReplyFails ==
    /\ handler = "replying"
    /\ Return("INTERNAL: transport")
    /\ UNCHANGED <<sent, eof, received, offered, code, applied, replies>>

Handle == Recv \/ RecvEOF \/ Accept \/ Refuse \/ Unhandled \/ Reply

Next ==
    \/ \E valid \in BOOLEAN : ClientSends(valid)
    \/ ClientCloses \/ Handle \/ RecvFails \/ ReplyFails

Spec == Init /\ [][Next]_vars

\* The handler runs; the producer and the transport owe nothing.
FairSpec == Spec /\ WF_vars(Handle)

-----------------------------------------------------------------------------
TypeOK ==
    /\ sent \in Seq(BOOLEAN) /\ Len(sent) <= MaxDirectives /\ eof \in BOOLEAN
    /\ received \in 0 .. Len(sent)
    /\ handler \in {"receiving", "offering", "replying", "returned"}
    /\ offered \in 0 .. Len(Providers) + 1 /\ code \in Codes
    /\ applied \in [DOMAIN Providers -> SUBSET Ids]
    /\ replies \in Seq([id : Ids, code : Codes])
    /\ result \in {"none", "OK", "INTERNAL: invalid", "INTERNAL: transport"}

AppliedTo(d) == {i \in DOMAIN Providers : d \in applied[i]}

\* The replies come in the order of the directives, one for each, and tell the
\* truth: OK when one provider took the directive, and only one did,
\* UNIMPLEMENTED when none did (service.go:103-118).
RepliesTell ==
    \A i \in DOMAIN replies :
        /\ replies[i].id = i
        /\ Cardinality(AppliedTo(i)) = IF replies[i].code = "OK" THEN 1 ELSE 0

\* What is applied without the producer being told is at most the directive
\* in hand when the stream ends; nothing invalid ever is (grpc/adapter.go:57-77).
AtMostOneUntold ==
    /\ Cardinality({d \in Ids : AppliedTo(d) # {} /\ d > Len(replies)}) <= 1
    /\ \A d \in DOMAIN sent : AppliedTo(d) # {} => sent[d]

\* A directive is answered, or the stream ends (grpc/adapter.go:51-53).
EveryDirectiveAnswered ==
    \A d \in Ids : d <= Len(sent) ~> (d <= Len(replies) \/ handler = "returned")
=============================================================================
