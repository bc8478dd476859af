------------------------------- MODULE Bringup -------------------------------
(***************************************************************************)
(* From the command line to a running core: the argument scanner, the two  *)
(* ways an image gets into DRAM (word by word through the programmer port, *)
(* image.h; by copying segments into the Verilated array, rtl_model.h),    *)
(* image_load_probe, which reads it back, and fire, which runs a demo and  *)
(* counts its frames.                                                      *)
(*                                                                         *)
(* The core is external: the programmer port stores a word per clock while *)
(* it is valid (a command may have it lose one word), and the hart that    *)
(* runs shows bytes and committed PCs.                                     *)
(***************************************************************************)
EXTENDS Host, TLC

CONSTANTS Word,         \* bytes the port writes at once: 8
          DramBytes     \* kDramBytes

ASSUME BringupAssumption == Word \in Nat \ {0} /\ DramBytes \in Nat /\ DramBytes % Word = 0

VARIABLES
  bpc,          \* "args", "reset", "load", "finish", "run", "done"
  dram,
  at_i,         \* image.h: the loop's i; rtl_model.h: segments copied
  lost,         \* external: where the port lost a word, or None3
  out,          \* fire: the bytes streamed, with the PC committed in their clock
  frames, fire_exit

bringVars == <<bpc, dram, at_i, lost, out, frames, fire_exit>>

IsPort == cmd.tool \in {"fire", "image_load_probe"}
IsFire == cmd.tool = "fire"
IsSeg  == cmd.tool = "rtl_model"

None3 == -1
-----------------------------------------------------------------------------
(* args.h; argv[1] is the program *)

(* External: decimal digits, of the numbers the commands use. *)
strtoull(v) == CHOOSE n \in 0 .. 9 : ToString(n) = v

(* The loops stop one short of the last argument, which has no value. *)
Matches(argv, flag) == {i \in 2 .. Len(argv) - 1 : argv[i] = flag}
Earliest(S) == CHOOSE i \in S : \A j \in S : i <= j

find_arg(argv, flag, def) ==
  IF Matches(argv, flag) = {} THEN def ELSE argv[Earliest(Matches(argv, flag)) + 1]

has_flag(argv, flag) == \E i \in 2 .. Len(argv) : argv[i] = flag

(* The vector is only searched: the set of its values. *)
collect_hex_args(argv, flag) ==
  {strtoull(argv[i + 1]) : i \in Matches(argv, flag)}
-----------------------------------------------------------------------------
(* image.h *)

Image == cmd.image

(* Faulty form: the size is not rounded up. *)
PaddedNot(buffer) == buffer

(* buffer.resize: whole words, filled with zero. *)
Padded(buffer) ==
  LET size == ((Len(buffer) + Word - 1) \div Word) * Word
  IN  [i \in 1 .. size |-> IF i <= Len(buffer) THEN buffer[i] ELSE 0]

(* reset: 20 clocks held, 20 released; nothing is stored. *)
reset ==
  /\ IsPort /\ bpc = "reset"
  /\ bpc' = "load"
  /\ UNCHANGED <<cmd, dram, at_i, lost, out, frames, fire_exit>>

(* One turn of the loader's loop: a word on the port, a clock. *)
LoadWord ==
  /\ IsPort /\ bpc = "load" /\ at_i + Word - 1 < Len(Padded(Image))
  /\ \E lose \in BOOLEAN :
       /\ lose => cmd.fault /\ lost = None3
       /\ lost' = IF lose THEN at_i ELSE lost
       /\ dram' = IF lose THEN dram
                  ELSE [a \in DOMAIN dram |-> IF a \in at_i .. at_i + Word - 1
                                              THEN Padded(Image)[a + 1] ELSE dram[a]]
  /\ at_i' = at_i + Word
  /\ UNCHANGED <<cmd, bpc, out, frames, fire_exit>>

(* finishedProgramming for a clock: the core may fetch. *)
Finish ==
  /\ IsPort /\ bpc = "load" /\ at_i + Word - 1 >= Len(Padded(Image))
  /\ bpc' = "run"
  /\ UNCHANGED <<cmd, dram, at_i, lost, out, frames, fire_exit>>
-----------------------------------------------------------------------------
(* rtl_model.h: image, device tree, boot ROM, each at its base *)

Fits(seg) == seg.base + Len(seg.bytes) <= DramBytes

load_segment ==
  /\ IsSeg /\ bpc = "load" /\ at_i < Len(cmd.segments)
  /\ LET seg == cmd.segments[at_i + 1]
     IN  IF Fits(seg)
         THEN /\ dram' = [a \in DOMAIN dram \cup seg.base .. seg.base + Len(seg.bytes) - 1 |->
                            IF a \in seg.base .. seg.base + Len(seg.bytes) - 1
                            THEN seg.bytes[a - seg.base + 1] ELSE dram[a]]
              /\ UNCHANGED <<bpc, fire_exit>>
         ELSE fire_exit' = 1 /\ bpc' = "done" /\ UNCHANGED dram
  /\ at_i' = at_i + 1
  /\ UNCHANGED <<cmd, lost, out, frames>>

SegmentsDone ==
  /\ IsSeg /\ bpc = "load" /\ at_i = Len(cmd.segments)
  /\ bpc' = "run"
  /\ UNCHANGED <<cmd, dram, at_i, lost, out, frames, fire_exit>>
-----------------------------------------------------------------------------
(* image_load_probe *)

Bad == {i \in 1 .. Len(Image) : dram[i - 1] # Image[i]}

CompareDram ==
  /\ cmd.tool = "image_load_probe" /\ bpc = "run"
  /\ fire_exit' = IF Bad # {} THEN 1 ELSE 0
  /\ bpc' = "done"
  /\ UNCHANGED <<cmd, dram, at_i, lost, out, frames>>
-----------------------------------------------------------------------------
(* fire *)

(* --frames, --done-pc and --timeout. *)
MaxFrames == strtoull(find_arg(cmd.argv, "--frames", "0"))
DonePc    == IF find_arg(cmd.argv, "--done-pc", "") = "" THEN None3
             ELSE strtoull(find_arg(cmd.argv, "--done-pc", ""))

(* FireFlags at the even places of a command line, each followed by a value.     *)
FireFlags == {"--frames", "--done-pc", "--timeout"}
Paired(argv) ==
  /\ Len(argv) % 2 = 1
  /\ \A k \in 1 .. Len(argv) : k % 2 = 1 => argv[k] \notin FireFlags

(* A command line gives an image that fits, flags with values, a number of   *)
(* frames, segments of bytes.                                                *)
ASSUME BringCommands ==
  \A c \in Commands :
    /\ c.tool \in {"fire", "image_load_probe"} =>
         c.image \in Seq(Nat) /\ Len(c.image) <= DramBytes /\ c.fault \in BOOLEAN
    /\ c.tool = "fire" => strtoull(find_arg(c.argv, "--frames", "0")) \in Nat
    /\ c.tool = "fire" => c.argv \in Seq(STRING) /\ Paired(c.argv)
    /\ c.tool = "rtl_model" => c.segments \in Seq([base : Nat, bytes : Seq(Nat)])

(* The byte completes ESC [ H; w0 and w1 are the two bytes before it. *)
Home(c) == c = "H" /\ Len(out) >= 2 /\ out[Len(out) - 1] = "ESC" /\ out[Len(out)] = "["

(* One clock: a byte or none, a committed PC.  The frame limit ends the run *)
(* before the PC is looked at.                                              *)
FireClock ==
  /\ IsFire /\ bpc = "run" /\ at_i - Len(Padded(Image)) < cmd.timeout
  /\ \E c \in cmd.bytes \cup {"none"}, pc \in cmd.pcs :
       LET home == c # "none" /\ Home(c)
           n    == IF home /\ MaxFrames # 0 THEN frames + 1 ELSE frames
           stop == (home /\ MaxFrames # 0 /\ n >= MaxFrames) \/ (DonePc # None3 /\ pc = DonePc)
       IN  /\ out' = IF c = "none" THEN out ELSE Append(out, c)
           /\ frames' = n
           /\ fire_exit' = IF stop THEN 0 ELSE fire_exit
           /\ bpc' = IF stop THEN "done" ELSE bpc
  /\ at_i' = at_i + 1
  /\ UNCHANGED <<cmd, dram, lost>>

FireTimeout ==
  /\ IsFire /\ bpc = "run" /\ at_i - Len(Padded(Image)) >= cmd.timeout
  /\ fire_exit' = 2 /\ bpc' = "done"
  /\ UNCHANGED <<cmd, dram, at_i, lost, out, frames>>
-----------------------------------------------------------------------------
BringInit ==
  /\ bpc = IF IsPort THEN "reset" ELSE "load"
  /\ dram = [a \in 0 .. DramBytes - 1 |-> 0]
  /\ at_i = 0 /\ lost = None3 /\ out = <<>> /\ frames = 0 /\ fire_exit = None3

BringNext == reset \/ LoadWord \/ Finish \/ load_segment \/ SegmentsDone \/ CompareDram
             \/ FireClock \/ FireTimeout

BringSpec == cmd \in Commands /\ BringInit /\ [][BringNext]_<<cmd, bringVars>>
-----------------------------------------------------------------------------
(* The core starts on a DRAM that holds every byte of the image, whatever   *)
(* its size modulo the width of the port, and zero behind it (image.h       *)
(* 60-91): the tail that was once dropped is hart_init_sync.                *)
ImageWhole ==
  (IsPort /\ bpc = "run" /\ lost = None3) =>
    \A a \in 0 .. DramBytes - 1 : dram[a] = IF a < Len(Image) THEN Image[a + 1] ELSE 0

(* The addresses a segment fills. *)
Span(s) == s.base .. s.base + Len(s.bytes) - 1

(* The three segments: an array index is never out of bounds, and a core    *)
(* that starts finds every segment whole that no later one overlaps         *)
(* (rtl_model.h 99-105, 438-459).                                           *)
SegmentsWhole ==
  IsSeg =>
    /\ DOMAIN dram = 0 .. DramBytes - 1
    /\ bpc = "run" => \A k \in 1 .. Len(cmd.segments) :
         \A a \in Span(cmd.segments[k]) \ UNION {Span(cmd.segments[j]) : j \in k + 1 .. Len(cmd.segments)} :
           dram[a] = cmd.segments[k].bytes[a - cmd.segments[k].base + 1]

(* image_load_probe fails exactly when the port has lost a word that is not *)
(* what the DRAM held before (image_load_probe.cpp 48-66).                  *)
LossSeen ==
  (cmd.tool = "image_load_probe" /\ bpc = "done") =>
    (fire_exit = 1 <=> lost # None3 /\ \E a \in lost .. lost + Word - 1 : a < Len(Image) /\ Image[a + 1] # 0)

(* fire stops at the frame it was asked for: the frames counted are the     *)
(* occurrences of ESC [ H in the stream, and exit 0 without a done-pc means *)
(* that many of them (fire.cpp 72-94).                                      *)
FramesExact ==
  IsFire =>
    LET homes == Cardinality({i \in 3 .. Len(out) : SubSeq(out, i - 2, i) = <<"ESC", "[", "H">>})
    IN  /\ frames = IF MaxFrames = 0 THEN 0 ELSE homes
        /\ (fire_exit = 0 /\ DonePc = None3) => MaxFrames # 0 /\ homes = MaxFrames
        /\ fire_exit = 2 => MaxFrames = 0 \/ homes < MaxFrames

(* Where a command line of pairs gives the flag f. *)
Given(argv, f) == {k \in 2 .. Len(argv) : k % 2 = 0 /\ argv[k] = f}

(* The scanner looks at every argument and takes the one behind a match for *)
(* its value; on a command line of pairs it never takes a value for a flag  *)
(* or reads behind the end: each flag's first value, or the default; every  *)
(* value of a repeated one (args.h 15-38).                                  *)
ArgsPaired ==
  IsFire =>
    \A f \in FireFlags :
      /\ has_flag(cmd.argv, f) <=> Given(cmd.argv, f) # {}
      /\ collect_hex_args(cmd.argv, f) = {strtoull(cmd.argv[k + 1]) : k \in Given(cmd.argv, f)}
      /\ Given(cmd.argv, f) = {} => find_arg(cmd.argv, f, "7") = "7"
      /\ \A k \in Given(cmd.argv, f) :
           (\A j \in Given(cmd.argv, f) : k <= j) => find_arg(cmd.argv, f, "7") = cmd.argv[k + 1]

(* What the guest finds in memory is the image: no byte is cut off by the    *)
(* rounding to words, a segment that does not fit is refused, a lost word is *)
(* noticed, and a run takes its arguments from their places and ends at the  *)
(* frame it was asked for.                                                   *)
BringupSound == ImageWhole /\ SegmentsWhole /\ LossSeen /\ FramesExact /\ ArgsPaired
=============================================================================
