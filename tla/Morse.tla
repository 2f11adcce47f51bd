------------------------------- MODULE Morse -------------------------------
(***************************************************************************)
(* The Morse code device io_port/morse_io.c: m_write() plays the letters   *)
(* of its text on the PC speaker, in a pitch that depends on the minor     *)
(* number.  Nothing keeps two writers apart; they share the speaker port   *)
(* MORSE_PIO and the counter of the PIT.                                   *)
(*                                                                         *)
(* External, as the code uses it: the two low bits of MORSE_PIO gate the   *)
(* speaker; the PIT takes a divisor as its low byte and then its high      *)
(* byte, and its command MORSE_SETUP makes it expect the low byte.         *)
(*                                                                         *)
(* Characters are numbers.  Delays only appear as the lengths of sounds    *)
(* and gaps.  m_fops has no owner, so that nothing but its user keeps the  *)
(* module from being unloaded under a writer; the model leaves those       *)
(* behaviours out, since what freed code does is undefined.                *)
(***************************************************************************)
EXTENDS Naturals, Sequences

CONSTANTS
  Writers,     \* processes that write to a device node
  minor_no,    \* minor_no[w] is the minor number w writes to, plus 1
  Texts        \* Texts[w] is what w may write, up to the first NUL

ASSUME WriterAssumption ==
  /\ minor_no \in [Writers -> 1 .. 3]              \* minor_count = 3
  /\ \A w \in Writers : Texts[w] \subseteq Seq(1 .. 255)

MORSE_CLK_FREQ   == 1193180
MORSE_FREQUENCY  == 2000
MORSE_SPACE_MASK == 32768

VARIABLES
  step,      \* the step of morse_init() that comes next, 0 without the module
  held,      \* what has been registered and allocated
  gate,      \* the bits MORSE_TONE_ON of the port MORSE_PIO are set
  pit,       \* the PIT: the byte it expects, the low byte it has, its divisor
  pc,        \* where each writer is
  value,     \* what sound() has read: the gate
  text,      \* *cp ..., the rest of the text
  c,         \* the rest of the code of the character
  asked,     \* history: the text of the m_write() going on
  sent,      \* history: what it has played, for each character it has taken
  crowded    \* history: writers whose m_write() overlapped with another one

modVars == <<step, held>>
vars == <<modVars, gate, pit, pc, value, text, c, asked, sent, crowded>>

Resources == {"region", "cdev", "live", "class", "nodes"}

Silent   == {"idle", "char", "bits", "inb", "on"}
Sounding == {"setup", "low", "high", "tone"}
Divisors == {n \in Nat : n < 256 * 256}
Signals  == {".", "-", "letter", "word"}

TypeOK ==
  /\ step \in 0 .. 6
  /\ held \subseteq Resources
  /\ gate \in BOOLEAN
  /\ pit \in [next : {"low", "high"}, low : 0 .. 255, divisor : Divisors]
  /\ pc \in [Writers -> Silent \cup Sounding]
  /\ value \in [Writers -> BOOLEAN]
  /\ text \in [Writers -> Seq(1 .. 255)]
  /\ c \in [Writers -> 0 .. 255]
  /\ asked \in [Writers -> Seq(1 .. 255)]
  /\ sent \in [Writers -> Seq(Seq(Signals))]
  /\ crowded \subseteq Writers

Init ==
  /\ step = 0 /\ held = {}
  /\ gate = FALSE
  /\ pit \in [next : {"low", "high"}, low : {0}, divisor : {0}]
  /\ pc = [w \in Writers |-> "idle"]
  /\ value = [w \in Writers |-> FALSE]
  /\ text = [w \in Writers |-> <<>>]
  /\ c = [w \in Writers |-> 0]
  /\ asked = [w \in Writers |-> <<>>]
  /\ sent = [w \in Writers |-> <<>>]
  /\ crowded = {}

Busy == {w \in Writers : pc[w] # "idle"}

---------------------------------------------------------------------------
\* The steps of morse_init(), and what each acquires.
InitOrder == <<"chrdev_region", "cdev_alloc", "cdev_add", "class_create",
               "device_create">>

Acquired ==
  [chrdev_region |-> "region", cdev_alloc |-> "cdev", cdev_add |-> "live",
   class_create |-> "class", device_create |-> "nodes"]

otherVars == <<gate, pit, pc, value, text, c, asked, sent, crowded>>

insmod == step = 0 /\ step' = 1 /\ UNCHANGED <<held, otherVars>>

\* A step of morse_init().  The results of the last three, of which
\* device_create() needs the class, are not looked at.
morse_init ==
  /\ step \in 1 .. Len(InitOrder)
  /\ step' = step + 1
  /\ \/ /\ InitOrder[step] = "device_create" => "class" \in held
        /\ held' = held \cup {Acquired[InitOrder[step]]}
     \/ /\ InitOrder[step] \in {"cdev_add", "class_create", "device_create"}
        /\ UNCHANGED held
  /\ UNCHANGED otherVars

\* Mutant: the region is kept.
Unwound_Not(failed) == {}

\* What the error path of a step gives back.
Unwound(failed) == IF failed = "cdev_alloc" THEN {"region"} ELSE {}

morse_init_fails ==
  /\ step \in 1 .. Len(InitOrder)
  /\ InitOrder[step] \in {"chrdev_region", "cdev_alloc"}
  /\ step' = 0
  /\ held' = held \ Unwound(InitOrder[step])
  /\ UNCHANGED otherVars

\* Without the class device_destroy() follows an error pointer, and the module
\* stays.
morse_exit ==
  /\ step = Len(InitOrder) + 1 /\ Busy = {}
  /\ "class" \in held
  /\ step' = 0
  /\ held' = held \ {"nodes", "class", "live", "cdev", "region"}
  /\ UNCHANGED otherVars

---------------------------------------------------------------------------
\* codes[]: the bits of a code are its signals, lowest first, 1 for a dash,
\* below a leading 1.
codes == <<
  MORSE_SPACE_MASK, 0, 0, 0, 0, 0, 0, 0,
  0, 0, 0, 0, 115, 49, 106, 41,
  63, 62, 60, 56, 48, 32, 33, 35,
  39, 47, 0, 0, 0, 0, 0, 76,
  0, 6, 17, 21, 9, 2, 20, 11,
  16, 4, 30, 13, 18, 7, 5, 15,
  22, 27, 10, 8, 3, 12, 24, 14,
  25, 29, 19 >>

ToUpper(ch) == IF ch \in 97 .. 122 THEN ch - 97 + 65 ELSE ch

\* The `continue`s before the table is used.  A char above 127 is negative
\* and so an unsigned int above 58.
Skipped(ch) == ch < 65 \/ ToUpper(ch) - 32 > 58

\* The entry of a character that is not skipped; C counts from 0.
Code(ch) == codes[ToUpper(ch) - 32 + 1]

m_write(w) ==
  /\ "live" \in held
  /\ pc[w] = "idle"
  /\ \E t \in Texts[w] :
       /\ text' = [text EXCEPT ![w] = t]
       /\ asked' = [asked EXCEPT ![w] = t]
  /\ crowded' = IF Busy = {} THEN crowded \ {w} ELSE crowded \cup Busy \cup {w}
  /\ pc' = [pc EXCEPT ![w] = "char"]
  /\ UNCHANGED <<modVars, gate, pit, value, c, sent>>

\* while ((c = *cp++) != '\0'): the end of the text, ...
TextEnds(w) == pc[w] = "char" /\ text[w] = <<>>

morse_returns(w) ==
  /\ TextEnds(w)
  /\ pc' = [pc EXCEPT ![w] = "idle"]
  /\ asked' = [asked EXCEPT ![w] = <<>>]
  /\ sent' = [sent EXCEPT ![w] = <<>>]
  /\ c' = [c EXCEPT ![w] = 0]                     \* the locals are dead
  /\ value' = [value EXCEPT ![w] = FALSE]
  /\ crowded' = crowded \ {w}
  /\ UNCHANGED <<modVars, gate, pit, text>>

\* ... or the next character: passed over, a word space, or a letter.
NextChar(w) ==
  /\ pc[w] = "char"
  /\ text[w] # <<>>
  /\ LET ch    == Head(text[w])
         space == ~Skipped(ch) /\ Code(ch) = MORSE_SPACE_MASK
     IN  IF Skipped(ch) \/ space
           THEN /\ sent' = [sent EXCEPT ![w] =
                              Append(@, IF space THEN <<"word">> ELSE <<>>)]
                /\ UNCHANGED <<pc, c>>
           ELSE /\ c' = [c EXCEPT ![w] = Code(ch)]
                /\ pc' = [pc EXCEPT ![w] = "bits"]
                /\ sent' = [sent EXCEPT ![w] = Append(@, <<>>)]
  /\ text' = [text EXCEPT ![w] = Tail(@)]
  /\ UNCHANGED <<modVars, gate, pit, value, asked, crowded>>

\* A signal of the character that was taken last.
Sends(w, signal) ==
  sent' = [sent EXCEPT ![w][Len(sent[w])] = Append(@, signal)]

\* Mutant: the loop ends when no dash is left.
BitsLeft_Dashes(code) == code > 2

\* c & MORSE_BIT_MASK, for a c below 256.
BitsLeft(code) == code > 1

\* An iteration of the inner loop begins, ...
NextBit(w) ==
  /\ pc[w] = "bits" /\ BitsLeft(c[w])
  /\ Sends(w, IF c[w] % 2 = 1 THEN "-" ELSE ".")
  /\ c' = [c EXCEPT ![w] = @ \div 2]
  /\ pc' = [pc EXCEPT ![w] = "inb"]
  /\ UNCHANGED <<modVars, gate, pit, value, text, asked, crowded>>

\* ... or the loop ends in letter_space().
letter_space(w) ==
  /\ pc[w] = "bits" /\ ~BitsLeft(c[w])
  /\ Sends(w, "letter")
  /\ pc' = [pc EXCEPT ![w] = "char"]
  /\ UNCHANGED <<modVars, gate, pit, value, text, c, asked, crowded>>

---------------------------------------------------------------------------
Divisor(w) == MORSE_CLK_FREQ \div (MORSE_FREQUENCY * minor_no[w])

\* Mutant: the divisor is not cut to a byte.
LowByte_Not(d) == d

LowByte(d) == d % 256

HighByte(d) == (d \div 256) % 256

\* outb(byte, MORSE_PIT_DATA)
PitData(byte) ==
  pit' = IF pit.next = "low"
           THEN [next |-> "high", low |-> byte, divisor |-> pit.divisor]
           ELSE [next |-> "low", low |-> pit.low, divisor |-> 256 * byte + pit.low]

Goto(w, from, to) == pc[w] = from /\ pc' = [pc EXCEPT ![w] = to]

soundVars == <<text, c, asked, sent, crowded>>

\* sound() reads the port; the gate is opened, and the PIT told to expect a
\* divisor, unless it was open.
sound_reads(w) ==
  /\ Goto(w, "inb", IF gate THEN "low" ELSE "on")
  /\ value' = [value EXCEPT ![w] = gate]
  /\ UNCHANGED <<modVars, gate, pit, soundVars>>

sound_opens(w) ==
  /\ Goto(w, "on", "setup")
  /\ gate' = TRUE
  /\ UNCHANGED <<modVars, pit, value, soundVars>>

\* Mutant: MORSE_SETUP is not sent.
sound_setup_Not(w) ==
  /\ Goto(w, "setup", "low")
  /\ UNCHANGED <<modVars, gate, pit, value, soundVars>>

sound_setup(w) ==
  /\ Goto(w, "setup", "low")
  /\ pit' = [pit EXCEPT !.next = "low"]
  /\ UNCHANGED <<modVars, gate, value, soundVars>>

sound_low(w) ==
  /\ Goto(w, "low", "high")
  /\ PitData(LowByte(Divisor(w)))
  /\ UNCHANGED <<modVars, gate, value, soundVars>>

sound_high(w) ==
  /\ Goto(w, "high", "tone")
  /\ PitData(HighByte(Divisor(w)))
  /\ UNCHANGED <<modVars, gate, value, soundVars>>

\* Mutant: the gate is left as sound() has found it.
nosound_Restores(w) ==
  /\ Goto(w, "tone", "bits")
  /\ gate' = value[w]
  /\ UNCHANGED <<modVars, pit, value, soundVars>>

\* The signal has been held; nosound() closes the gate.
nosound(w) ==
  /\ Goto(w, "tone", "bits")
  /\ gate' = FALSE
  /\ UNCHANGED <<modVars, pit, value, soundVars>>

---------------------------------------------------------------------------
Step(w) ==
  \/ m_write(w) \/ morse_returns(w) \/ NextChar(w)
  \/ NextBit(w) \/ letter_space(w)
  \/ sound_reads(w) \/ sound_opens(w) \/ sound_setup(w)
  \/ sound_low(w) \/ sound_high(w) \/ nosound(w)

Next ==
  \/ insmod \/ morse_init \/ morse_init_fails \/ morse_exit
  \/ \E w \in Writers : Step(w)

Spec == Init /\ [][Next]_vars

---------------------------------------------------------------------------
\* The international code, by position in the alphabet.
International == <<
  <<".", "-">>, <<"-", ".", ".", ".">>, <<"-", ".", "-", ".">>,
  <<"-", ".", ".">>, <<".">>, <<".", ".", "-", ".">>, <<"-", "-", ".">>,
  <<".", ".", ".", ".">>, <<".", ".">>, <<".", "-", "-", "-">>,
  <<"-", ".", "-">>, <<".", "-", ".", ".">>, <<"-", "-">>, <<"-", ".">>,
  <<"-", "-", "-">>, <<".", "-", "-", ".">>, <<"-", "-", ".", "-">>,
  <<".", "-", ".">>, <<".", ".", ".">>, <<"-">>, <<".", ".", "-">>,
  <<".", ".", ".", "-">>, <<".", "-", "-">>, <<"-", ".", ".", "-">>,
  <<"-", ".", "-", "-">>, <<"-", "-", ".", ".">> >>

LetterNo(ch) ==
  IF ch \in 65 .. 90 THEN ch - 64 ELSE IF ch \in 97 .. 122 THEN ch - 96 ELSE 0

InMorse(ch) == Append(International[LetterNo(ch)], "letter")

(***************************************************************************)
(* What m_write() has played for each letter of its text when it returns,  *)
(* in either case, is its international Morse code and a letter space.     *)
(* Of other characters nothing is said: codes[] has entries for digits,    *)
(* some punctuation and the word space, but `c < 'A'` keeps morse() from   *)
(* ever coming to them.                                                    *)
(***************************************************************************)
PlaysMorse ==
  \A w \in Writers :
    TextEnds(w) =>
      /\ Len(sent[w]) = Len(asked[w])
      /\ \A i \in 1 .. Len(asked[w]) :
           LetterNo(asked[w][i]) # 0 => sent[w][i] = InMorse(asked[w][i])

(***************************************************************************)
(* A writer that has the device to itself is heard in its own pitch, also  *)
(* after overlapping writers have left the PIT in the middle of a divisor: *)
(* the gate is closed then, so that sound() sets the PIT up again.         *)
(***************************************************************************)
OwnPitch ==
  \A w \in Writers \ crowded :
    pc[w] = "tone" => gate /\ pit.divisor = Divisor(w)

(***************************************************************************)
(* What is left behind: the speaker is silent again when all writers have  *)
(* returned, however they interleave their sound() and nosound() on the    *)
(* port; and of a module that is not loaded nothing is left, also not what *)
(* a morse_init() had got before a step of it failed.  (A module without   *)
(* its class cannot be unloaded.)                                          *)
(***************************************************************************)
LeavesNothing ==
  /\ Busy = {} => ~gate
  /\ step = 0 => held = {}
=============================================================================
