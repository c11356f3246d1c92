---------------------------- MODULE CodecBlocks ----------------------------
(***************************************************************************)
(* The notation in which the Milesight codecs are written down.            *)
(*                                                                         *)
(* A payload is a sequence of blocks.  A block begins with a head, two     *)
(* bytes that name a channel and a type, and its body has a length that    *)
(* only the head tells: nothing in the payload says where a block ends.    *)
(* decode() is a loop over heads; a branch moves the index over the body,  *)
(* so a branch that moves it too far or not far enough makes the loop read *)
(* the middle of a body as a head.                                         *)
(*                                                                         *)
(* A head is the number 65536*selector + 256*channel + type.  The selector *)
(* stands for the part of the body that decides its length (a sub-command, *)
(* a count) and is 0 where the length is fixed.  Codecs that use a single  *)
(* command byte have no channel.  What a table holds for a head is how far *)
(* the branch moves the index after the head.  The values of the bodies    *)
(* are left out.                                                           *)
(***************************************************************************)
EXTENDS Integers, Sequences, TLC

\* instead of a length: the branch raises an exception
Throws == -1

\* how many entries a command that repeats a block is given, at most
MaxCopies == 2

\* branches that move the index over n bytes
Blocks(n, heads) == [h \in heads |-> n]

\* channels read without looking at the type
Channels(n, channels) == [h \in {256 * ch + ty : ch \in channels, ty \in 0..255} |-> n]

\* the default of a switch over one command byte
Otherwise(n) == [cmd \in 0..255 |-> n]

\* replies are told apart by type alone, whatever channel they arrive on
ReplyOf(head) == 256 * (head \div 65536) + (head % 256)

HeadOf(channel, reply) == 65536 * (reply \div 256) + 256 * channel + (reply % 256)

\* the branch that hands every type of these channels to a reply handler
On(channels, replies, other) ==
    [head \in {HeadOf(ch, r) : ch \in channels, r \in DOMAIN replies \cup 0..255} |->
        IF ReplyOf(head) \in DOMAIN replies THEN replies[ReplyOf(head)] ELSE other]

\* replies on channel f8 end with a byte that says whether the command worked
WithResult(replies) ==
    [r \in DOMAIN replies |-> IF replies[r] = Throws THEN Throws ELSE replies[r] + 1]

\* a downlink of one block
One(head, len) == <<[head |-> head, len |-> len]>>

\* commands that become one block with a body of n bytes, whatever their parameters
Frames(n, commands) == [c \in DOMAIN commands |-> {One(commands[c], n)}]

\* a command that writes a block for each entry of a parameter, possibly none
Copies(head, len) == {[i \in 1..n |-> [head |-> head, len |-> len]] : n \in 0..MaxCopies}

\* an encode() that refuses everything
NoCommands == [c \in {} |-> {}]
=============================================================================
