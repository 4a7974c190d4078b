------------------------------- MODULE Printk -------------------------------
(***************************************************************************)
(* drivers/x64/Video/vga/printk.c: the formatting loop, one action per     *)
(* iteration, up to its call of vga_write_string, on a console that other  *)
(* clients write to between its calls.                                     *)
(*                                                                         *)
(* The loop looks at its buffer's limit before an iteration, and an        *)
(* iteration may write a whole argument; past the buffer lies the frame of *)
(* printk itself, and what follows is not defined by the code ("lost").  A *)
(* directive at the very end of the format steps over its terminator; what *)
(* lies there is another string.                                           *)
(*                                                                         *)
(* Definitions F_Something are F with a plausible mistake.                 *)
(***************************************************************************)
EXTENDS VgaText, FiniteSets, SequencesExt

CONSTANTS
    Size,         \* sizeof buffer, 256
    Percent, S,   \* '%' and 's'
    Formats,      \* what clients pass as fmt
    Common,       \* bound: the formats used once anything was written
    Arguments,    \* the strings they pass for %s
    Beyond        \* the strings that may follow a format in memory

ASSUME PrintkAssumption ==
    /\ Size \in Nat \ {0}
    /\ Percent \in Char /\ S \in Char \ {Percent}
    /\ Formats \subseteq Seq(Char) /\ Common \subseteq Formats
    /\ Arguments \subseteq Seq(Seq(Char)) /\ Beyond \subseteq Seq(Char)

VARIABLES
    at,       \* "code", "loop" or "lost"
    call,     \* [format, args] of the call, as the client made it
    fmt,      \* what is left of the format
    args,     \* the arguments va_arg has not returned yet
    buffer    \* buffer[0 .. i-1]

frame == << call, fmt, args, buffer >>
vars  == << at, frame, screen >>

\* Where in a format a character stands for itself and where it is read as
\* a directive: an odd number of '%' right before it makes the difference.
PercentsBefore(f, p) ==
    CHOOSE n \in 0..(p - 1) :
        /\ \A q \in (p - n)..(p - 1) : f[q] = Percent
        /\ n = p - 1 \/ f[p - 1 - n] # Percent

Directive(f, p) == PercentsBefore(f, p) % 2 = 1

StringsIn(f) == {p \in DOMAIN f : f[p] = S /\ Directive(f, p)}

\* The format ends in the middle of a directive.
CutShort(f) == f # << >> /\ f[Len(f)] = Percent /\ ~Directive(f, Len(f))

NoCall == [format |-> << >>, args |-> << >>]

Init ==
    /\ at = "code"
    /\ call = NoCall
    /\ fmt = << >> /\ args = << >>
    /\ buffer = << >>
    /\ VgaInit

\* A client calls printk with an argument for each %s.
Call(f, given) ==
    /\ at = "code"
    /\ Len(given) = Cardinality(StringsIn(f))
    /\ Fits(Size - 1) /\ (f \in Common \/ Cursor = 0)
    /\ at' = "loop"
    /\ call' = [format |-> f, args |-> given]
    /\ fmt' = f /\ args' = given
    /\ buffer' = << >>
    /\ UNCHANGED screen

Room_OneMore == Len(buffer) < Size
Room_OneLess == Len(buffer) < Size - 2
Room == Len(buffer) < Size - 1

Continues == at = "loop" /\ fmt # << >> /\ Room

Character ==
    /\ Continues
    /\ Head(fmt) # Percent
    /\ fmt' = Tail(fmt)
    /\ buffer' = Append(buffer, Head(fmt))
    /\ UNCHANGED << at, call, args, screen >>

\* The format once its directive is read.
AfterDirective_Half == {Tail(fmt)}
AfterDirective_Stays == {fmt}
AfterDirective == IF Len(fmt) > 1 THEN {Tail(Tail(fmt))} ELSE Beyond

String ==
    /\ Continues
    /\ Head(fmt) = Percent
    /\ Len(fmt) > 1 /\ fmt[2] = S
    /\ IF args = << >>
         THEN /\ at' = "lost"           \* va_arg past the last argument
              /\ UNCHANGED << fmt, args, buffer >>
         ELSE /\ at' = IF Len(buffer) + Len(Head(args)) < Size THEN at ELSE "lost"
              /\ fmt' \in AfterDirective
              /\ buffer' = buffer \o Head(args)
              /\ args' = Tail(args)
    /\ UNCHANGED << call, screen >>

OtherDirective ==
    /\ Continues
    /\ Head(fmt) = Percent
    /\ Len(fmt) > 1 => fmt[2] # S
    /\ fmt' \in AfterDirective
    /\ UNCHANGED << at, call, args, buffer, screen >>

Finished == at = "loop" /\ (fmt = << >> \/ ~Room)

Finish ==
    /\ Finished
    /\ vga_write_string(buffer)
    /\ at' = "code"
    /\ call' = NoCall
    /\ fmt' = << >> /\ args' = << >> /\ buffer' = << >>

printk == Character \/ String \/ OtherDirective \/ Finish

Next ==
    \/ \E f \in Formats, given \in Arguments : Call(f, given)
    \/ printk
    \/ at = "code" /\ VgaNext /\ UNCHANGED << at, frame >>

\* The processor executes printk to its end.
Spec == Init /\ [][Next]_vars /\ WF_vars(printk)

-----------------------------------------------------------------------------
(* Properties.                                                             *)

\* Every variable holds a value of its kind; outside "lost" the buffer with
\* its terminator keeps to its size.
TypeOK ==
    /\ at \in {"code", "loop", "lost"}
    /\ call.format \in Formats \cup {<< >>}
    /\ Len(args) <= Len(call.args)
    /\ at # "lost" => Len(buffer) < Size
    /\ VgaTypeOK

\* The text a format stands for: its own characters and the arguments of
\* its %s, other directives dropped.
StringsUpTo(f, p) == Cardinality({q \in StringsIn(f) : q <= p})

Part(f, given, p) ==
    IF Directive(f, p)
      THEN IF f[p] = S THEN given[StringsUpTo(f, p)] ELSE << >>
    ELSE IF f[p] = Percent THEN << >>
    ELSE << f[p] >>

Parts(f, given) == [p \in DOMAIN f |-> Part(f, given, p)]

Text(f, given) == FlattenSeq(Parts(f, given))

\* While a call runs and when it ends, what it has written is what the format
\* stands for, as far as it goes.
WritesTheText ==
    at # "lost" /\ ~CutShort(call.format)
        => IsPrefix(buffer, Text(call.format, call.args))

\* What a call hands to the console is all of it, unless its buffer is full to
\* the last place: no room is wasted and nothing is dropped before.
LosesNothing ==
    Finished /\ ~CutShort(call.format)
        => \/ buffer = Text(call.format, call.args)
           \/ Len(buffer) = Size - 1

\* A call returns or runs out of its buffer or arguments; no format makes the
\* loop go on for ever.
Returns == (at = "loop") ~> (at # "loop")

-----------------------------------------------------------------------------
(* Why they hold.                                                          *)

\* Every variable is of its kind, and a call started with room on the screen
\* for all its buffer can hold.
Kinds ==
    /\ at \in {"code", "loop", "lost"}
    /\ call.format \in Formats \cup {<< >>}
    /\ fmt \in Seq(Char) /\ buffer \in Seq(Char)
    /\ args \in Seq(Seq(Char)) /\ call.args \in Seq(Seq(Char))
    /\ Len(args) <= Len(call.args)
    /\ at # "lost" => Len(buffer) < Size
    /\ at = "loop" => Fits(Size - 1)
    /\ at = "code" => call = NoCall /\ buffer = << >>

\* p characters of the format are done: the buffer is the text they stand
\* for, fmt and args are what follows them, and no directive is begun.
Done(f, given, p) ==
    /\ fmt = SubSeq(f, p + 1, Len(f))
    /\ args = SubSeq(given, StringsUpTo(f, p) + 1, Len(given))
    /\ buffer = FlattenSeq(SubSeq(Parts(f, given), 1, p))
    /\ ~Directive(f, p + 1)

Progress ==
    at = "loop" /\ ~CutShort(call.format) =>
        /\ Len(call.args) = Cardinality(StringsIn(call.format))
        /\ \E p \in 0..Len(call.format) : Done(call.format, call.args, p)

PrintkInvariant == ConsoleInvariant /\ Kinds /\ Progress
=============================================================================
