------------------------------- MODULE FrameLink -------------------------------
(***************************************************************************)
(* The wire of one tunnel from client to server, octet by octet: the user  *)
(* id, then frames, each encoded (ghost-common), encrypted (ghost-crypto), *)
(* headed by its length and written through the FragmentedStream.  The     *)
(* receiver finds the boundaries with read_exact alone.                    *)
(*                                                                         *)
(*   frame -- Encode, Encrypt --> write_all, write_all -- poll_write -->   *)
(*        TCP -- read_exact, read_exact --> Decrypt, Decode --> frame      *)
(*                                                                         *)
(* Numbers are written to a base that is 256 in the code, two octets of    *)
(* length or payload length and one of everything else.                    *)
(***************************************************************************)
EXTENDS Naturals, Sequences

CONSTANTS
  Base,        \* the values an octet has
  UserId,      \* the octets of the user id
  Hosts,       \* the targets of the init frame
  MaxRead,     \* the size of the buffer that plain octets are read to: 8192
  MaxPadding,  \* max_padding_len of the configuration
  FragBytes,   \* how many octets of the stream are fragmented: 128, or 0
  FragSize,    \* the size of a fragment: 2
  MaxFrames,   \* bound on the frames sent
  Buffered     \* bound on the octets TCP holds

Min(a, b) == IF a < b THEN a ELSE b

NoTarget == [type |-> 0, host |-> <<>>, port |-> <<>>]

AddrLen(t) ==
  CASE t.type = 0 -> 1 [] t.type = 3 -> 4 + Len(t.host) [] OTHER -> 3 + Len(t.host)

\* A frame adds six octets to user id, address, payload and padding: version, two
\* lengths of which one has two, nonce and tag.  The last conjuncts are what makes
\* `encrypted.len() as u16` harmless: the longest frames, those of a name of 255
\* octets and of a payload of 8192, with 255 of padding, have a length.
ASSUME LinkAssumption ==
  /\ Base \in Nat \ {0, 1, 2, 3, 4}
  /\ UserId \in Seq(0 .. Base - 1) /\ UserId # <<>>
  /\ Hosts \subseteq [type : {1, 3, 4}, host : Seq(0 .. Base - 1), port : Seq(0 .. Base - 1)]
  /\ \A t \in Hosts :
       /\ Len(t.port) = 2
       /\ t.type = 1 => Len(t.host) = 4
       /\ t.type = 4 => Len(t.host) = 16
       /\ t.type = 3 => Len(t.host) \in 1 .. Base - 1
  /\ MaxRead \in Nat \ {0} /\ MaxPadding \in 0 .. Base - 1
  /\ {FragBytes, MaxFrames} \subseteq Nat /\ {FragSize, Buffered} \subseteq Nat \ {0}
  /\ \A t \in Hosts : 6 + Len(UserId) + AddrLen(t) + MaxPadding < Base * Base
  /\ 7 + Len(UserId) + MaxRead + MaxPadding < Base * Base

VARIABLES
  writer,  \* what the sender is writing: pc, the octets left, the frame
  frag,    \* remaining_frag_bytes
  net,     \* octets in TCP
  cut,     \* how the sender's socket was closed, if it was: no, end, reset
  reader,  \* what the receiver is in: pc, how many octets it wants, those it has
  sent,    \* history: the messages written in full
  got      \* the messages the receiver decoded

vars == <<writer, frag, net, cut, reader, sent, got>>

--------------------------------------------------------------------------------
(* Codec.                                                                  *)

Bad == [bad |-> TRUE]

\* `as u16`, big-endian.
U16(n) == <<(n \div Base) % Base, n % Base>>
Value(b, i) == b[i] * Base + b[i + 1]

Repeat(x, n) == [i \in 1 .. n |-> x]

EncodeAddr(t) ==
  CASE t.type = 0 -> <<0>>
    [] t.type = 3 -> <<3, Len(t.host)>> \o t.host \o t.port
    [] OTHER -> <<t.type>> \o t.host \o t.port

\* Mutant: the length counts the padding.
EncodeCountsPadding(f) ==
  <<1>> \o UserId \o EncodeAddr(f.target) \o U16(Len(f.payload) + Len(f.padding)) \o f.payload
    \o <<Len(f.padding) % Base>> \o f.padding

Encode(f) ==
  <<1>> \o UserId \o EncodeAddr(f.target) \o U16(Len(f.payload)) \o f.payload
    \o <<Len(f.padding) % Base>> \o f.padding

\* TargetAddr::decode of b from i on: how many octets it takes, 0 for an error.
AddrSize(b, i) ==
  LET left == IF Len(b) < i THEN 0 ELSE Len(b) - i + 1
      size == IF left = 0 THEN 1
              ELSE CASE b[i] = 0 -> 1
                     [] b[i] = 1 -> 7
                     [] b[i] = 4 -> 19
                     [] b[i] = 3 /\ left >= 2 /\ b[i + 1] # 0 -> 4 + b[i + 1]
                     [] OTHER -> left + 1
  IN  IF size <= left THEN size ELSE 0

DecodeAddr(b, i) ==
  LET n == AddrSize(b, i)
      h == IF b[i] = 3 THEN i + 2 ELSE i + 1
  IN  IF b[i] = 0 THEN NoTarget
      ELSE [type |-> b[i], host |-> SubSeq(b, h, i + n - 3), port |-> SubSeq(b, i + n - 2, i + n - 1)]

\* The frame with its payload at p; padding that is not there is left out.
DecodeAt(b, h, p) ==
  LET n == Value(b, p - 2)
      d == b[p + n]
  IN  [target |-> DecodeAddr(b, h), payload |-> SubSeq(b, p, p + n - 1),
       padding |-> IF Len(b) - p - n >= d THEN SubSeq(b, p + n + 1, p + n + d) ELSE <<>>]

\* Mutant: a payload that is cut short is taken as it is.
DecodeLenient(b) ==
  LET h == 2 + Len(UserId)
      a == AddrSize(b, h)
      p == h + a + 2
  IN  IF Len(b) < h - 1 \/ b[1] # 1 \/ a = 0 \/ Len(b) < p - 1 THEN Bad
      ELSE IF Len(b) < p + Value(b, p - 2)
           THEN [target |-> DecodeAddr(b, h), payload |-> SubSeq(b, p, Len(b)), padding |-> <<>>]
           ELSE DecodeAt(b, h, p)

\* Each underflow, a wrong version and a wrong address are errors.
Decode(b) ==
  LET h == 2 + Len(UserId)
      a == AddrSize(b, h)
      p == h + a + 2
  IN  IF \/ Len(b) < h - 1 \/ b[1] # 1 \/ a = 0 \/ Len(b) < p - 1
         \/ Len(b) < p + Value(b, p - 2)
      THEN Bad ELSE DecodeAt(b, h, p)

\* The AEAD opens what was sealed as a whole and nothing else.  Nonce and tag
\* are one octet each here, of a value no other octet has.
Nonce == Base
Tag == Base + 1
Encrypt(p) == <<Nonce>> \o p \o <<Tag>>

Sealed(c) ==
  /\ Len(c) >= 2 /\ c[1] = Nonce /\ c[Len(c)] = Tag
  /\ \A i \in 2 .. Len(c) - 1 : c[i] \in 0 .. Base - 1

Decrypt(c) == SubSeq(c, 2, Len(c) - 1)

Receives(c) == IF Sealed(c) THEN Decode(Decrypt(c)) ELSE Bad

\* with_random_padding: any length up to the limit, any octets.
Paddings == UNION {{Repeat(x, n) : x \in {0, Base - 1}} : n \in 0 .. MaxPadding}

InitFrames == [target : Hosts, payload : {<<>>}, padding : Paddings]
DataFrames ==
  [target : {NoTarget}, payload : {Repeat(1, n) : n \in 1 .. MaxRead}, padding : Paddings]

Frames == InitFrames \cup DataFrames

--------------------------------------------------------------------------------
Uid == [kind |-> "uid"]
Message(f) == [target |-> f.target, payload |-> f.payload]
Messages == {Uid} \cup {Message(f) : f \in Frames}

Octet == 0 .. Base + 1

TypeOK ==
  /\ writer.pc \in {"uid", "idle", "header", "body"}
  /\ writer.left \in Seq(Octet) /\ writer.frame \in Frames \cup {Uid}
  /\ frag \in 0 .. FragBytes
  /\ net \in Seq(Octet) /\ Len(net) <= Buffered
  /\ cut \in {"no", "end", "reset"}
  /\ reader.pc \in {"uid", "length", "frame", "bad", "end", "error"}
  /\ reader.want \in 0 .. Base * Base - 1
  /\ reader.has \in Seq(Octet) /\ Len(reader.has) <= reader.want
  /\ sent \in Seq(Messages) /\ Len(sent) <= MaxFrames + 1
  /\ got \in Seq(Messages)

Init ==
  /\ writer = [pc |-> "uid", left |-> UserId, frame |-> Uid]
  /\ frag = FragBytes
  /\ net = <<>> /\ cut = "no"
  /\ reader = [pc |-> "uid", want |-> Len(UserId), has |-> <<>>]
  /\ sent = <<>> /\ got = <<>>

--------------------------------------------------------------------------------
(* The sender.                                                             *)

Header(f) == U16(Len(Encrypt(Encode(f))))

\* The init frame, or what one read of the plain side returned.
NextFrame ==
  /\ writer.pc = "idle" /\ cut = "no" /\ Len(sent) <= MaxFrames
  /\ \E f \in IF Len(sent) = 1 THEN InitFrames ELSE DataFrames :
       writer' = [pc |-> "header", left |-> Header(f), frame |-> f]
  /\ UNCHANGED <<frag, net, cut, reader, sent, got>>

\* Mutant: rounds a fragment down.
ChunkStuck(n) == IF frag = 0 THEN n ELSE Min(FragSize, frag) - 1

\* poll_write offers TCP one fragment as long as any octet is to be fragmented.
Chunk(n) == IF frag = 0 THEN n ELSE Min(Min(FragSize, frag), n)

\* write_all goes on until the buffer is written, then the next one follows.
AfterWrite(n) ==
  IF n < Len(writer.left) THEN [writer EXCEPT !.left = SubSeq(@, n + 1, Len(@))]
  ELSE IF writer.pc = "header"
       THEN [writer EXCEPT !.pc = "body", !.left = Encrypt(Encode(writer.frame))]
       ELSE [writer EXCEPT !.pc = "idle", !.left = <<>>]

\* TCP takes as much of it as it has room for, at least one octet.
PollWrite ==
  /\ writer.pc # "idle" /\ cut = "no"
  /\ \E n \in 1 .. Min(Chunk(Len(writer.left)), Buffered - Len(net)) :
       /\ net' = net \o SubSeq(writer.left, 1, n)
       /\ frag' = frag - Min(frag, n)
       /\ writer' = AfterWrite(n)
       /\ sent' = IF writer'.pc = "idle"
                  THEN Append(sent, IF writer.frame = Uid THEN Uid ELSE Message(writer.frame))
                  ELSE sent
  /\ UNCHANGED <<cut, reader, got>>

\* select! drops the loop at an await, and the sockets with it: TCP delivers what
\* it holds, or, with octets of the other direction unread, resets and loses some.
Cut ==
  /\ cut = "no"
  /\ \/ cut' = "end" /\ UNCHANGED net
     \/ cut' = "reset" /\ \E n \in 0 .. Len(net) : net' = SubSeq(net, 1, n)
  /\ UNCHANGED <<writer, frag, reader, sent, got>>

--------------------------------------------------------------------------------
(* The receiver.                                                           *)

\* Mutant: a read that is not limited to what read_exact still wants.
WantedAll == Len(net)

Wanted == Min(Len(net), reader.want - Len(reader.has))

Read ==
  /\ reader.pc \in {"uid", "length", "frame"} /\ Len(reader.has) < reader.want
  /\ \E n \in 1 .. Wanted :
       /\ reader' = [reader EXCEPT !.has = @ \o SubSeq(net, 1, n)]
       /\ net' = SubSeq(net, n + 1, Len(net))
  /\ UNCHANGED <<writer, frag, cut, sent, got>>

Turn(pc, want) == [pc |-> pc, want |-> want, has |-> <<>>]

\* What read_exact has filled is used.
Use ==
  /\ reader.pc \in {"uid", "length", "frame"} /\ Len(reader.has) = reader.want
  /\ \/ /\ reader.pc = "uid"
        /\ reader' = Turn("length", 2) /\ got' = Append(got, Uid)
     \/ /\ reader.pc = "length"
        /\ reader' = Turn("frame", Value(reader.has, 1)) /\ UNCHANGED got
     \/ /\ reader.pc = "frame"
        /\ LET f == Receives(reader.has) IN
             IF f = Bad THEN reader' = Turn("bad", 0) /\ UNCHANGED got
             ELSE reader' = Turn("length", 2) /\ got' = Append(got, Message(f))
  /\ UNCHANGED <<writer, frag, net, cut, sent>>

\* UnexpectedEof, within a read_exact or before it, or the error of a reset.
ReadEnds ==
  /\ reader.pc \in {"uid", "length", "frame"} /\ Len(reader.has) < reader.want
  /\ cut # "no" /\ net = <<>>
  /\ reader' = Turn(IF cut = "end" THEN "end" ELSE "error", 0)
  /\ UNCHANGED <<writer, frag, net, cut, sent, got>>

Receiver == Read \/ Use \/ ReadEnds

Next == NextFrame \/ PollWrite \/ Cut \/ Receiver

Spec == Init /\ [][Next]_vars

\* Both sides are polled; nobody has to send another frame or to be dropped.
FairSpec == Spec /\ WF_vars(PollWrite) /\ WF_vars(Receiver)

--------------------------------------------------------------------------------
(* Properties.                                                             *)

\* The wire is a channel of whole messages: what is decoded is what was sent, in
\* order, however the octets were fragmented, buffered and cut off, and without a
\* reset all that was written in full is decoded, and so nothing of it rejected
\* (handler.rs:122, 128) and no rest of a message taken for one.
Channel == INSTANCE MessageChannel WITH closed <- cut # "no", lossy <- cut = "reset"
ImplementsChannel == Channel!FairSpec

\* GhostFrame::decode gives back what encode was given, padding included, and a
\* plaintext that is cut short is an error as soon as any of the payload, or the
\* length of the padding, is missing.
CodecIsPrefixSafe ==
  writer.frame # Uid =>
    LET f == writer.frame
        p == Encode(f)
    IN  /\ Decode(p) = f
        /\ \A n \in 0 .. Len(p) - 1 :
             Decode(SubSeq(p, 1, n)) =
               IF n < Len(p) - Len(f.padding) THEN Bad ELSE [f EXCEPT !.padding = <<>>]

\* poll_write never comes to a standstill on the last octets of a fragment: a
\* message that is being written is written in full unless the sender is dropped.
WriteReturns == writer.pc # "idle" ~> writer.pc = "idle" \/ cut # "no"
================================================================================
