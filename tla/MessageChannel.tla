---------------------------- MODULE MessageChannel ----------------------------
(***************************************************************************)
(* One direction of a GenericMessageChannel over a TCPChannel: the sender  *)
(* writes a header and a body per message into a byte stream, the socket   *)
(* hands the bytes over in pieces of any size, and the receiver cuts them  *)
(* into messages again.  The receiver is called only when its input buffer *)
(* holds at least the low watermark it set when it last returned.          *)
(*                                                                         *)
(* A byte is << message, offset >>; what the header's length field holds   *)
(* is read from the first byte of a message, and bytes that are no header  *)
(* parse as any length at all.                                             *)
(***************************************************************************)
EXTENDS Naturals, Sequences

CONSTANTS HeaderSize,   \* header_size_: 7 bytes with a message id
          Lengths,      \* body lengths of the messages sent
          MaxMessages,  \* bound on messages sent
          ReadSizes     \* bytes one evbuffer_read may return

ASSUME MessageAssumption ==
  /\ HeaderSize \in Nat \ {0}
  /\ Lengths \subseteq Nat
  /\ MaxMessages \in Nat
  /\ ReadSizes \subseteq Nat \ {0}

VARIABLES sent,       \* body lengths given to sendMsg, in order
          wire,       \* bytes written and not yet read from the socket
          input,      \* input_evb_ of the receiver's TCPChannel
          state,      \* state_ of the receiver
          msgLen,     \* msg_len_
          lowMark,    \* read_lw_mark_
          consuming,  \* inside the loop of _consume_input
          received,   \* << message, its bytes >> handed to onRecvMsg
          eof         \* the sender closed; then the receiver was told

framingVars ==
  << sent, wire, input, state, msgLen, lowMark, consuming, received, eof >>

FramingInit ==
  /\ sent = << >> /\ wire = << >> /\ input = << >> /\ received = << >>
  /\ state = "READ_HEADER" /\ msgLen = 0 /\ lowMark = 0
  /\ consuming = FALSE /\ eof = FALSE

(* The bytes of message m: its header, then its body.                      *)
Bytes(m, len) == [i \in 1..(HeaderSize + len) |-> << m, i >>]

(* The lengths a header at the front of the input may be read as.          *)
HeaderLen == IF input[1][2] = 1 THEN {sent[input[1][1]]} ELSE Lengths

-----------------------------------------------------------------------------
SendMsg(len) ==
  /\ ~eof /\ Len(sent) < MaxMessages
  /\ sent' = Append(sent, len)
  /\ wire' = wire \o Bytes(Len(sent'), len)
  /\ UNCHANGED << input, state, msgLen, lowMark, consuming, received, eof >>

(* TCPChannel's read callback: it reads a piece, and tells the observer    *)
(* only when the low watermark is reached.                                 *)
Notifies(in) == Len(in) >= lowMark

OnSocketRead(n) ==
  /\ ~consuming /\ state # "CLOSED"
  /\ n <= Len(wire)
  /\ input' = input \o SubSeq(wire, 1, n)
  /\ wire' = SubSeq(wire, n + 1, Len(wire))
  /\ consuming' = Notifies(input')
  /\ UNCHANGED << sent, state, msgLen, lowMark, received, eof >>

ReadHeader_DrainsIt ==
  /\ consuming /\ state = "READ_HEADER"
  /\ Len(input) >= HeaderSize
  /\ msgLen' \in HeaderLen
  /\ state' = "READ_MSG"
  /\ input' = SubSeq(input, HeaderSize + 1, Len(input))
  /\ UNCHANGED << sent, wire, lowMark, consuming, received, eof >>

(* Case READ_HEADER of the loop, when a header is there.                   *)
ReadHeader ==
  /\ consuming /\ state = "READ_HEADER"
  /\ Len(input) >= HeaderSize
  /\ msgLen' \in HeaderLen
  /\ state' = "READ_MSG"
  /\ UNCHANGED << sent, wire, input, lowMark, consuming, received, eof >>

ReadMsg_LeavesTheLoop ==
  /\ consuming /\ state = "READ_MSG"
  /\ Len(input) >= HeaderSize + msgLen
  /\ received' = Append(received, SubSeq(input, 1, HeaderSize + msgLen))
  /\ input' = SubSeq(input, HeaderSize + msgLen + 1, Len(input))
  /\ msgLen' = 0 /\ state' = "READ_HEADER"
  /\ consuming' = FALSE /\ lowMark' = HeaderSize
  /\ UNCHANGED << sent, wire, eof >>

(* Case READ_MSG of the loop, when the whole message is there: notify,     *)
(* clear the header fields, drain header and body.                         *)
ReadMsg ==
  /\ consuming /\ state = "READ_MSG"
  /\ Len(input) >= HeaderSize + msgLen
  /\ received' = Append(received, SubSeq(input, 1, HeaderSize + msgLen))
  /\ input' = SubSeq(input, HeaderSize + msgLen + 1, Len(input))
  /\ msgLen' = 0 /\ state' = "READ_HEADER"
  /\ UNCHANGED << sent, wire, lowMark, consuming, eof >>

(* Neither case has enough bytes: the loop ends, and the watermark is set  *)
(* to what the next step needs.                                            *)
StopConsuming ==
  /\ consuming
  /\ Len(input) < HeaderSize + (IF state = "READ_MSG" THEN msgLen ELSE 0)
  /\ consuming' = FALSE
  /\ lowMark' = HeaderSize + msgLen
  /\ UNCHANGED << sent, wire, input, state, msgLen, received, eof >>

PeerCloses ==
  /\ ~eof /\ eof' = TRUE
  /\ UNCHANGED << sent, wire, input, state, msgLen, lowMark, consuming, received >>

(* The socket reads zero bytes, after everything before it.                *)
OnEOF ==
  /\ ~consuming /\ state # "CLOSED"
  /\ eof /\ wire = << >>
  /\ state' = "CLOSED"
  /\ UNCHANGED << sent, wire, input, msgLen, lowMark, consuming, received, eof >>

(* The connection is reset: what is still on its way is lost.              *)
OnError ==
  /\ ~consuming /\ state # "CLOSED"
  /\ state' = "CLOSED"
  /\ UNCHANGED << sent, wire, input, msgLen, lowMark, consuming, received, eof >>

Reading == \E n \in ReadSizes : OnSocketRead(n)

FramingNext ==
  \/ \E len \in Lengths : SendMsg(len)
  \/ Reading \/ ReadHeader \/ ReadMsg \/ StopConsuming
  \/ PeerCloses \/ OnEOF \/ OnError

(* The event loop calls back while there is something to read, and a       *)
(* callback runs to its end.                                               *)
FramingFairness ==
  /\ WF_framingVars(Reading)
  /\ WF_framingVars(ReadHeader)
  /\ WF_framingVars(ReadMsg)
  /\ WF_framingVars(StopConsuming)

FramingSpec == FramingInit /\ [][FramingNext]_framingVars /\ FramingFairness

-----------------------------------------------------------------------------
(* Type correctness of the receiver's buffers and header fields.           *)
FramingTypeOK ==
  /\ sent \in Seq(Lengths)
  /\ state \in {"READ_HEADER", "READ_MSG", "CLOSED"}
  /\ msgLen \in Lengths \union {0}
  /\ lowMark \in {0} \union {HeaderSize + len : len \in Lengths \union {0}}
  /\ consuming \in BOOLEAN /\ eof \in BOOLEAN

(* No message waits for the next one to arrive: whenever _consume_input is *)
(* not running, the input buffer holds no complete message, and the next   *)
(* read that completes one reaches the watermark.                          *)
NoStall ==
  ~consuming /\ input # << >> =>
    /\ input[1][2] = 1
    /\ LET need == HeaderSize + sent[input[1][1]]
       IN  Len(input) < need /\ lowMark <= need

(* The bytes handed over are those of the messages sent: seen through      *)
(* whole messages, the channel is a queue that neither loses, repeats,     *)
(* reorders nor cuts them, and delivers what it was given while it is open.*)
Delivered ==
  [i \in 1..Len(received) |->
     IF received[i] = Bytes(i, sent[i]) THEN << i, sent[i] >> ELSE << 0, 0 >>]

Fifo == INSTANCE MessageFifo
  WITH Message  <- (1..MaxMessages) \X Lengths,
       sent     <- [i \in 1..Len(sent) |-> << i, sent[i] >>],
       received <- Delivered,
       open     <- state # "CLOSED"

ImplementsFifo == Fifo!Spec
===============================================================================
