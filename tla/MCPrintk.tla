------------------------------ MODULE MCPrintk ------------------------------
(* The console of two rows of three columns.  Printk gets every format of up *)
(* to three characters of '%', 's' and 'a' and three of four on a fresh      *)
(* screen, and Common ones, a directive and a line end, after any writing on *)
(* the first row, on a buffer of five places, with arguments of one, two and *)
(* four characters; past a format lies an empty string, a character or a     *)
(* directive.  Strings written directly end a line, fill one, overflow one   *)
(* and hold a code over 127.                                                 *)
EXTENDS Printk

MCCommon == { << Percent, S >>, << 97, NewLine >> }

MCFormats ==
    SeqOf({Percent, S, 97}, 3) \cup MCCommon
        \cup { << Percent, S, Percent, S >>, << 97, Percent, Percent, 97 >>,
                 << 97, 97, 97, 97 >> }

MCArguments == SeqOf({ << 120 >>, << 121, 200 >>, << 122, NewLine, 122, 122 >> }, 2)

MCBeyond == { << >>, << 113 >>, << Percent, S >> }

MCStrings == { << 84, 49, NewLine >>, << 65, Space, 66, 67 >>, << 200 >> }
=============================================================================
