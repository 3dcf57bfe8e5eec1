---------------------------- MODULE ImageMessage ----------------------------
(* The messages between a session and the recogniser: a magic number, the     *)
(* number of images, their sizes, their bytes.  ImageEncoding writes one      *)
(* (encoding.scala), the constructor of ImageMessage reads it (im.cpp), and   *)
(* an ImageMessage can be changed and written again.                          *)
(*                                                                            *)
(* Radix is the number of values of a byte, 256 in the code; a word is four   *)
(* bytes whatever the radix, so that a small radix keeps the shape of the     *)
(* message and brings the limits of its integers within reach.                *)
EXTENDS Integers, Sequences, SequencesExt

CONSTANTS
    Radix,       \* values of a byte
    Magic,       \* the four bytes of 0xface0007
    Bodies,      \* bodies that arrive from somewhere else
    Sent,        \* images that a session sends
    Memories,    \* what may be found where a range of bytes leaves the body
    MaxWrites    \* bound: how often a message is written again

ASSUME RadixAssumption == Radix \in Nat /\ Radix >= 2

Byte == 0 .. Radix - 1

\* A word, and the largest int: 2^32 and 2^31 - 1 in the code.
Word   == Radix * Radix * Radix * Radix
MaxInt == Word \div 2 - 1

ASSUME MagicAssumption == Magic \in [1..4 -> Byte]

(* Bound: a body is no longer than an int can say.  An image that is sent is  *)
(* copied into an array of 12 + image.length bytes (encoding.scala:20).       *)
ASSUME BodiesAssumption == \A b \in Bodies : b \in Seq(Byte) /\ Len(b) <= MaxInt
ASSUME SentAssumption == \A image \in Sent : image \in Seq(Byte) /\ 12 + Len(image) <= MaxInt
ASSUME MemoriesAssumption == Memories # {} /\ Memories \subseteq [1 .. MaxInt -> Byte]
ASSUME WritesAssumption == MaxWrites \in Nat

VARIABLES
    body,        \* the body of the message that is read
    count,       \* the locals of the constructor: count, i, dataStart
    i,
    dataStart,
    images,      \* m_images
    reading,     \* where the constructor is, or how it ended
    written,     \* history: the images the body was made of, if it was made by this code
    writes       \* history: how often a message was written

messageVars == <<body, count, i, dataStart, images, reading, written, writes>>

NotOurs == <<<<-1>>>>   \* no image: a byte is not negative

-----------------------------------------------------------------------------
(* Words of four bytes, the most significant first.                           *)
WriteBEInt32(value) ==
    << (value \div (Radix * Radix * Radix)) % Radix,
       (value \div (Radix * Radix)) % Radix,
       (value \div Radix) % Radix,
       value % Radix >>

(* read throws when the four bytes are not there.                             *)
CanRead(buffer, offset) == offset + 4 <= Len(buffer)

ReadWord(buffer, offset) ==
    buffer[offset + 1] * (Radix * Radix * Radix) + buffer[offset + 2] * (Radix * Radix)
        + buffer[offset + 3] * Radix + buffer[offset + 4]

(* An unsigned word that is assigned to an int, and a sum of ints.            *)
AsInt(word) == IF word <= MaxInt THEN word ELSE word - Word
\* Mutant of Wrapped: offsets of any size.
Unwrapped(n) == n

Wrapped(n)  == AsInt(n % Word)

(* ImageMessage::writeAmqpBytes, and ImageEncoding.singleImage on the other   *)
(* side.                                                                      *)
Sizes(ims) == [k \in DOMAIN ims |-> WriteBEInt32(Len(ims[k]))]

WriteAmqpBytes(ims) ==
    Magic \o WriteBEInt32(Len(ims)) \o FlattenSeq(Sizes(ims)) \o FlattenSeq(ims)

\* Mutant of SingleImage: no number of images.
SingleImageUncounted(image) == Magic \o WriteBEInt32(Len(image)) \o image

SingleImage(image) ==
    Magic \o WriteBEInt32(1) \o WriteBEInt32(Len(image)) \o image

-----------------------------------------------------------------------------
MessageInit ==
    /\ \/ body \in Bodies /\ written = NotOurs
       \/ \E image \in Sent : body = SingleImage(image) /\ written = <<image>>
    /\ count = 0 /\ i = 0 /\ dataStart = 0 /\ images = <<>>
    /\ reading = "header"
    /\ writes = 0

(* assertMagic, the count, and where the images begin.                        *)
ReadHeader ==
    /\ reading = "header"
    /\ IF CanRead(body, 4) /\ SubSeq(body, 1, 4) = Magic
       THEN LET n == AsInt(ReadWord(body, 4))
            IN  count' = n /\ dataStart' = Wrapped(8 + 4 * n) /\ reading' = "images"
       ELSE reading' = "rejected" /\ UNCHANGED <<count, dataStart>>
    /\ UNCHANGED <<body, i, images, written, writes>>

(* A vector of size bytes, from dataStart on.  The range is not compared with *)
(* that of the body: outside of it, the bytes are those of some memory.       *)
Copied(size, memory) ==
    [k \in 1 .. size |-> IF dataStart + k \in DOMAIN body THEN body[dataStart + k] ELSE memory[k]]

\* Mutant of ReadImage: dataStart stays where it is.
ReadImageFromStart ==
    /\ reading = "images" /\ i < count
    /\ CanRead(body, 8 + 4 * i)
    /\ LET size == AsInt(ReadWord(body, 8 + 4 * i))
       IN  /\ size >= 0
           /\ \E memory \in Memories : images' = Append(images, Copied(size, memory))
    /\ i' = i + 1
    /\ UNCHANGED <<body, count, dataStart, reading, written, writes>>

(* One turn of the loop.  A size that is not there is a bad message.  A       *)
(* negative size is a vector of more bytes than there can be: that exception  *)
(* is not the one the constructor declares, and ends the process.  A range    *)
(* that leaves the body ends it too, if nothing can be read there; otherwise  *)
(* the constructor goes on with whatever is there.                            *)
ReadImage ==
    /\ reading = "images" /\ i < count
    /\ LET size   == AsInt(ReadWord(body, 8 + 4 * i))
           inside == 0 <= dataStart /\ dataStart + size <= Len(body)
       IN  \/ /\ ~CanRead(body, 8 + 4 * i)
              /\ reading' = "rejected"
              /\ UNCHANGED <<i, dataStart, images>>
           \/ /\ CanRead(body, 8 + 4 * i)
              /\ size < 0 \/ (size > 0 /\ ~inside)
              /\ reading' = "crashed"
              /\ UNCHANGED <<i, dataStart, images>>
           \/ /\ CanRead(body, 8 + 4 * i)
              /\ size >= 0
              /\ \E memory \in Memories : images' = Append(images, Copied(size, memory))
              /\ dataStart' = Wrapped(dataStart + size)
              /\ i' = i + 1
              /\ UNCHANGED reading
    /\ UNCHANGED <<body, count, written, writes>>

(* The end of the loop: at once if count, an int, is negative.                *)
Constructed ==
    /\ reading = "images" /\ i >= count
    /\ reading' = "read"
    /\ UNCHANGED <<body, count, i, dataStart, images, written, writes>>

(* headImage is m_images.at(0): it throws if there is none.                   *)
HeadImage ==
    /\ reading = "read"
    /\ reading' = IF images = <<>> THEN "headless" ELSE "served"
    /\ UNCHANGED <<body, count, i, dataStart, images, written, writes>>

(* replaceImage(k - 1, image) does not check its index: it is called with one *)
(* of the message.  The body of the message stays what it was.                *)
ReplaceImage(k, image) ==
    /\ reading \in {"read", "served"} /\ k \in DOMAIN images
    /\ images' = [images EXCEPT ![k] = image]
    /\ reading' = "changed"
    /\ UNCHANGED <<body, count, i, dataStart, written, writes>>

(* writeAmqpBytes, and another process that reads what was written.  Bound:   *)
(* what is written is no longer than MaxInt.                                  *)
WriteAgain ==
    /\ reading \in {"read", "served", "changed"} /\ writes < MaxWrites
    /\ Len(WriteAmqpBytes(images)) <= MaxInt
    /\ body' = WriteAmqpBytes(images)
    /\ written' = images
    /\ writes' = writes + 1
    /\ count' = 0 /\ i' = 0 /\ dataStart' = 0 /\ images' = <<>>
    /\ reading' = "header"

MessageNext ==
    \/ ReadHeader \/ ReadImage \/ Constructed \/ HeadImage \/ WriteAgain
    \/ \E k \in DOMAIN images, image \in Sent : ReplaceImage(k, image)

MessageSpec == MessageInit /\ [][MessageNext]_messageVars

-----------------------------------------------------------------------------
MessageTypeOK ==
    /\ body \in Seq(Byte) /\ Len(body) <= MaxInt
    /\ count \in MaxInt + 1 - Word .. MaxInt
    /\ i \in Nat
    /\ dataStart \in MaxInt + 1 - Word .. MaxInt
    /\ images \in Seq(Seq(Byte))
    /\ reading \in {"header", "images", "read", "served", "headless", "changed",
                   "rejected", "crashed"}
    /\ written = NotOurs \/ written \in Seq(Seq(Byte))
    /\ writes \in 0 .. MaxWrites

(* What a session sends, and what an ImageMessage writes, is read as it was:  *)
(* never rejected by the constructor, never out of range, the same images in  *)
(* the same order.  The two ends are written in two languages, and the        *)
(* offsets are computed in three places (encoding.scala:19, im.cpp:14, 40).   *)
WrittenIsRead ==
    written # NotOurs =>
        /\ reading \in {"header", "images"} => IsPrefix(images, written)
        /\ reading \in {"read", "served"} => images = written
        /\ reading = "headless" => written = <<>>
        /\ reading \notin {"rejected", "crashed"}

Agree(s, t) == \A k \in DOMAIN s \cap DOMAIN t : s[k] = t[k]

(* Of a body that somebody else made, the constructor may accept more than    *)
(* there is, because it does not compare the sizes with the length of the     *)
(* body (im.cpp:11-22).  But the magic number, the count and every size are   *)
(* those of the body, and the bytes of the images are its bytes for as far as *)
(* it goes: none is skipped, shifted or read twice, although the offsets are  *)
(* ints that wrap around.  The exception is a count that does not fit an int, *)
(* which is read as an empty message.                                         *)
AcceptedIsWhatWasSent ==
    reading \in {"read", "served"} =>
        \/ /\ 8 + 4 * Len(images) <= Len(body)
           /\ Agree(WriteAmqpBytes(images), body)
        \/ count < 0 /\ images = <<>>

(* Violated by the code: ImageMessageException "Indicates problems with the   *)
(* message structure" (im.h:21), the sizes followed "by the bytes that make   *)
(* up the images" (im.h:28-29), and the constructor throws nothing else       *)
(* (im.h:53); so what it accepts, written again, is the body's beginning.  It *)
(* also accepts a message that has fewer bytes than its sizes say.            *)
BadStructureIsRejected ==
    reading \in {"read", "served"} /\ images # <<>> =>
        IsPrefix(WriteAmqpBytes(images), body)
=============================================================================
