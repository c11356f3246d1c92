---------------------------- MODULE DeviceCodec ----------------------------
(***************************************************************************)
(* One device and its codec (modules/devices/codecs).  A user sends the    *)
(* device a command, which the codec of its model turns into blocks; the   *)
(* device answers by sending the blocks back on the channel it uses for    *)
(* answers, in the same uplink as its readings; decode() reads the uplink  *)
(* block by block.  So encode() and decode(), which are written hundreds   *)
(* of lines apart, must agree on the length of every block.                *)
(*                                                                         *)
(* Codecs gives every model a record: decode, how far each branch moves;   *)
(* encode, the payloads each command may become; offered, the commands     *)
(* getCapabilities lists; answers, the channels decode() reads answers on, *)
(* and single heads where it has a branch for one answer.                  *)
(***************************************************************************)
EXTENDS CodecBlocks

CONSTANTS Codecs,        \* model |-> its codec
          NewTypes,      \* types a device with newer firmware may send
          Disagreements, \* <<model, command>> whose answer decode() does not read in full
          Refused,       \* <<model, command>> that is offered and that encode() refuses
          MaySendNothing, \* <<model, command>> that may become an empty downlink
          Brittle        \* the models whose decode() throws at a type it does not know

VARIABLES model,   \* the device's model
          command, \* the last command, or NoCommand
          downlink, \* the blocks it became
          state,   \* idle, refused, sent, decoding, decoded, or astray: the loop's index
                   \* is inside a block
          uplink,  \* the blocks decode() has not read
          kept     \* how many of the readings in the uplink were decoded

codecVars == <<model, command, downlink, state, uplink, kept>>

NoCommand == "none"

\* a block with a measurement, of which every uplink here has one at each end
Reading == [head |-> -1, len |-> 0]

CommandsOf(m) == Codecs[m].offered \cup DOMAIN Codecs[m].encode

Block == [head : Nat, len : Nat]

ASSUME CodecAssumption ==
    /\ \A m \in DOMAIN Codecs :
          /\ NoCommand \notin CommandsOf(m)
          /\ Codecs[m].answers \subseteq Nat
          /\ \A c \in DOMAIN Codecs[m].encode : Codecs[m].encode[c] \subseteq Seq(Block)
    /\ NewTypes \subseteq Nat

CodecTypeOK ==
    /\ model \in DOMAIN Codecs
    /\ command \in CommandsOf(model) \cup {NoCommand}
    /\ state \in {"idle", "refused", "sent", "decoding", "decoded", "astray"}
    /\ kept \in 0..2

-----------------------------------------------------------------------------
(* Downlink                                                                *)

CodecInit ==
    /\ model \in DOMAIN Codecs
    /\ command = NoCommand /\ downlink = <<>>
    /\ state = "idle"
    /\ uplink = <<>> /\ kept = 0

\* encode() throws for a command it does not know
Refuse(c) ==
    /\ state = "idle"
    /\ c \notin DOMAIN Codecs[model].encode
    /\ command' = c
    /\ state' = "refused"
    /\ UNCHANGED <<model, downlink, uplink, kept>>

Encode(c) ==
    /\ state = "idle"
    /\ c \in DOMAIN Codecs[model].encode
    /\ command' = c
    /\ downlink' \in Codecs[model].encode[c]
    /\ state' = "sent"
    /\ UNCHANGED <<model, uplink, kept>>

-----------------------------------------------------------------------------
(* The device                                                              *)

Selector(head) == head \div 65536
Channel(head) == (head \div 256) % 256
OnChannel(head, ch) == 65536 * Selector(head) + 256 * ch + (head % 256)

\* a command on ff is answered on ff or fe, one on f9 on f9 or f8; the codecs of a single
\* command byte have one channel, 0
AnswerChannels(ch) ==
    CASE ch = 255 -> {254, 255}
      [] ch = 249 -> {248, 249}
      [] OTHER -> {ch}

\* the answer on f8 ends with one byte more, the result
Echoes(m, block) ==
    {[head |-> OnChannel(block.head, ch), len |-> IF ch = 248 THEN block.len + 1 ELSE block.len] :
        ch \in {c \in AnswerChannels(Channel(block.head)) :
                  {c, OnChannel(block.head, c)} \cap Codecs[m].answers # {}}}

Arrive(blocks) ==
    /\ uplink' = <<Reading>> \o blocks \o <<Reading>>
    /\ kept' = 0
    /\ state' = "decoding"
    /\ UNCHANGED <<model, command, downlink>>

Answer ==
    /\ state = "sent"
    /\ downlink # <<>>
    /\ \E echo \in [1..Len(downlink) -> UNION {Echoes(model, downlink[i]) : i \in 1..Len(downlink)}] :
          /\ \A i \in 1..Len(downlink) : echo[i] \in Echoes(model, downlink[i])
          /\ Arrive(echo)

\* readings on their own: no command was sent, or the device does not answer it
Report ==
    /\ state \in {"idle", "sent"}
    /\ Arrive(<<>>)

\* a setting was changed at the device, which says so with a type of newer firmware
Announce ==
    /\ state = "idle"
    /\ \E ch \in Codecs[model].answers, ty \in NewTypes :
          /\ ch < 256
          /\ Arrive(One(HeadOf(ch, ty), 1))

-----------------------------------------------------------------------------
(* decode()                                                                *)

IsReading == uplink # <<>> /\ Head(uplink) = Reading
IsBlock == uplink # <<>> /\ Head(uplink) # Reading

\* how far the branch for the next block moves the index
Width == Codecs[model].decode[Head(uplink).head]

\* does the loop have a branch for the next block
Known == Head(uplink).head \in DOMAIN Codecs[model].decode

ReadReading ==
    /\ state = "decoding" /\ IsReading
    /\ kept' = kept + 1
    /\ uplink' = Tail(uplink)
    /\ UNCHANGED <<model, command, downlink, state>>

ReadBlock ==
    /\ state = "decoding" /\ IsBlock
    /\ Known /\ Width = Head(uplink).len
    /\ uplink' = Tail(uplink)
    /\ UNCHANGED <<model, command, downlink, state, kept>>

\* an unknown head ends the loop: what follows it is not read
StopAtUnknown ==
    /\ state = "decoding" /\ IsBlock
    /\ ~Known
    /\ state' = "decoded"
    /\ uplink' = <<>>
    /\ UNCHANGED <<model, command, downlink, kept>>

\* registry.decode() catches what decode() throws and keeps the payload undecoded
WrapRaw ==
    /\ state = "decoding" /\ IsBlock
    /\ Known /\ Width = Throws
    /\ state' = "decoded"
    /\ uplink' = <<>> /\ kept' = 0
    /\ UNCHANGED <<model, command, downlink>>

\* the index stops inside the block, or beyond it: what is read next was never a head
GoAstray ==
    /\ state = "decoding" /\ IsBlock
    /\ Known /\ Width \notin {Throws, Head(uplink).len}
    /\ state' = "astray"
    /\ UNCHANGED <<model, command, downlink, uplink, kept>>

EndOfUplink ==
    /\ state = "decoding" /\ uplink = <<>>
    /\ state' = "decoded"
    /\ UNCHANGED <<model, command, downlink, uplink, kept>>

\* the next command or uplink: nothing of this one is kept by the codec
Again ==
    /\ state \in {"refused", "decoded", "astray"}
    /\ command' = NoCommand /\ downlink' = <<>>
    /\ state' = "idle"
    /\ uplink' = <<>> /\ kept' = 0
    /\ UNCHANGED model

CodecNext ==
    \/ \E c \in CommandsOf(model) : Refuse(c) \/ Encode(c)
    \/ Answer \/ Report \/ Announce
    \/ ReadReading \/ ReadBlock \/ StopAtUnknown \/ WrapRaw \/ GoAstray \/ EndOfUplink
    \/ Again

CodecSpec == CodecInit /\ [][CodecNext]_codecVars

-----------------------------------------------------------------------------
(* Properties                                                              *)

\* Whatever command a device answers, the measurements in the same uplink reach the
\* platform: decode() reads the answer to the byte and goes on behind it.  Disagreements
\* are the commands whose answers are known to cost the device its readings.
ReadingsSurvive ==
    /\ state \in {"decoded", "astray"}
    /\ command # NoCommand /\ <<model, command>> \notin Disagreements
    => state = "decoded" /\ kept = 2

\* A command a codec advertises in getCapabilities, which the user interface shows, is one
\* its encode() accepts, except for the ones in Refused.
OfferedAccepted ==
    state = "refused" /\ <<model, command>> \notin Refused => command \notin Codecs[model].offered

\* A command that encode() accepts says something to the device, whatever its parameters,
\* except for the ones in MaySendNothing: an empty downlink is published like any other
\* and the command recorded as delivered.
AcceptedSaysSomething ==
    state = "sent" /\ <<model, command>> \notin MaySendNothing => downlink # <<>>

\* A block the codec does not know, from a device with newer firmware, costs at most the
\* measurements behind it in the uplink, never the ones already decoded; except for the
\* Brittle models, whose decode() throws and whose whole uplink is then stored undecoded.
UnknownKeepsEarlier ==
    state = "decoded" /\ command = NoCommand /\ model \notin Brittle => kept >= 1
=============================================================================
