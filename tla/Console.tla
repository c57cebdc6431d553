--------------------------------- MODULE Console ---------------------------------
(***************************************************************************)
(* Console input and the screen's cursor: console.c, with kbd.c and the    *)
(* input side of uart.c as the sources of characters.                      *)
(*                                                                         *)
(* A character is "x" for any printable one, "\n", "^D", "^H" (backspace   *)
(* or delete), "^U" or "^P"; "" is the 0 that getc() returns for a key     *)
(* that types nothing.  The work on one character under cons.lock is one   *)
(* step.  input.r, input.w and input.e are uints, modulo UINT.             *)
(*                                                                         *)
(* The operators named Bug... are plausible mistakes in the definition     *)
(* that follows them; no specification uses them.                          *)
(***************************************************************************)
EXTENDS Naturals, Sequences

CONSTANTS
  Proc,           \* processes that read the console
  INPUT_BUF,      \* console.c
  UINT,           \* 2^32
  COLS, ROWS,     \* the screen, 80 and 25
  Sizes           \* byte counts of reads (bound)

ASSUME ConsoleAssumption ==
  /\ {INPUT_BUF, UINT, COLS, ROWS} \cup Sizes \subseteq Nat
  /\ 0 < INPUT_BUF /\ INPUT_BUF < UINT /\ UINT % INPUT_BUF = 0
  /\ 0 < COLS /\ 1 < ROWS

VARIABLES
  buf, r, w, e,   \* struct input
  pos,            \* the cursor, column + COLS * row
  shift,          \* kbdgetc(): the modifiers that are on, of CTL, E0ESC
  wire, down,     \* the keyboard: what 0xE0 announced, control keys held down
  pc, n, got, killed   \* of each reader: place, bytes wanted, bytes returned

input == <<buf, r, w, e>>
keyboard == <<shift, wire, down>>
readers == <<pc, n, got, killed>>
vars == <<input, pos, keyboard, readers>>

Minus(a, b) == (a + UINT - b) % UINT
Dec(a) == Minus(a, 1)
Inc(a) == (a + 1) % UINT

Init ==
  /\ buf = [i \in 0 .. INPUT_BUF - 1 |-> ""]
  /\ r = 0 /\ w = 0 /\ e = 0
  /\ pos \in 0 .. ROWS * COLS - 1        \* the hardware's cursor, as the boot left it
  /\ shift = {} /\ wire = "" /\ down = {}
  /\ pc = [p \in Proc |-> "user"]
  /\ n = [p \in Proc |-> 0]
  /\ got = [p \in Proc |-> <<>>]
  /\ killed = {}

Ring(a, b) == [i \in 1 .. Minus(b, a) |-> buf[(a + i - 1) % INPUT_BUF]]

--------------------------------------------------------------------------------
BugScroll(to) == IF to \div COLS >= ROWS THEN to - COLS ELSE to
Scroll(to) == IF to \div COLS >= ROWS - 1 THEN to - COLS ELSE to

(* cgaputc(c) of a character: where the cursor goes; "panic" beyond the     *)
(* screen.                                                                 *)
Cgaputc(at, c) ==
  LET to == IF c = "\n" THEN at + COLS - (at % COLS) ELSE at + 1
  IN IF to > ROWS * COLS THEN "panic" ELSE Scroll(to)

(* k calls of consputc(BACKSPACE).  Only the first can scroll, from the     *)
(* last line.                                                              *)
Left(at, k) == IF at > k THEN at - k ELSE 0
Backspaces(k) == IF k = 0 THEN pos ELSE Left(Scroll(Left(pos, 1)), k - 1)

(* cons.lock is held from the check of killed to the sleep. *)
Unlocked == \A p \in Proc : pc[p] # "tosleep"

BugWakeup == UNCHANGED pc
Wakeup == pc' = [p \in Proc |-> IF pc[p] = "sleep" THEN "read" ELSE pc[p]]

(* How many characters ^U erases: back to w or to a newline. *)
KillLine ==
  {k \in 0 .. Minus(e, w) :
     /\ \A j \in 1 .. k : buf[Minus(e, j) % INPUT_BUF] # "\n"
     /\ k = Minus(e, w) \/ buf[Minus(e, k + 1) % INPUT_BUF] = "\n"}

Full == (r + INPUT_BUF) % UINT

(* consoleintr(), one character c of getc(). *)
ConsoleIntr(c) ==
  /\ Unlocked
  /\ CASE c = "^U" -> /\ \E k \in KillLine : e' = Minus(e, k) /\ pos' = Backspaces(k)
                      /\ UNCHANGED <<buf, w, pc>>
       [] c = "^H" -> /\ e' = IF e # w THEN Dec(e) ELSE e
                      /\ pos' = IF e # w THEN Backspaces(1) ELSE pos
                      /\ UNCHANGED <<buf, w, pc>>
       [] c \notin {"", "^U", "^H", "^P"} /\ Minus(e, r) < INPUT_BUF ->
            /\ buf' = [buf EXCEPT ![e % INPUT_BUF] = c]
            /\ e' = Inc(e)
            /\ pos' = Cgaputc(pos, c)
            /\ IF c \in {"\n", "^D"} \/ e' = Full
               THEN w' = e' /\ Wakeup
               ELSE UNCHANGED <<w, pc>>
       [] OTHER -> UNCHANGED <<buf, w, e, pos, pc>>
  /\ UNCHANGED <<r, n, got, killed>>

(* uartintr(): the serial line sends plain characters. *)
UartIntr(c) == ConsoleIntr(c) /\ UNCHANGED keyboard

(* consolewrite(), cprintf(), procdump(): output of one character. *)
ConsoleWrite(c) ==
  /\ Unlocked
  /\ pos' = Cgaputc(pos, c)
  /\ UNCHANGED <<input, keyboard, readers>>

--------------------------------------------------------------------------------
(***************************************************************************)
(* kbdintr() with one byte from the keyboard: the code of a key, pressed   *)
(* or released, or the 0xE0 that precedes those of the right control key.  *)
(***************************************************************************)
Control == {"lctl", "rctl"}
Shiftcode(key) == IF key \in Control THEN {"CTL"} ELSE {}

(* normalmap and ctlmap, for the keys of interest. *)
Charcode(key, mods) ==
  CASE key \in Control -> ""
    [] key = "\n" -> "\n"
    [] OTHER -> IF "CTL" \in mods THEN key ELSE "x"

(* 0xE0, before the key is pressed or released. *)
KbdE0(kind) ==
  /\ wire = ""
  /\ "rctl" \in down <=> kind = "release"
  /\ wire' = kind
  /\ shift' = shift \cup {"E0ESC"}
  /\ UNCHANGED <<input, pos, down, readers>>

KbdPress(key) ==
  /\ wire = IF key = "rctl" THEN "press" ELSE ""
  /\ key \notin down
  /\ down' = down \cup (Control \cap {key})
  /\ wire' = ""
  /\ shift' = (shift \ {"E0ESC"}) \cup Shiftcode(key)
  /\ ConsoleIntr(Charcode(key, shift'))

BugKbdRelease(key) ==
  /\ wire = IF key = "rctl" THEN "release" ELSE ""
  /\ key \in down
  /\ down' = down \ {key}
  /\ wire' = ""
  /\ shift' = shift \ (IF "E0ESC" \in shift THEN {"E0ESC"} ELSE Shiftcode(key))
  /\ UNCHANGED <<input, pos, readers>>

KbdRelease(key) ==
  /\ wire = IF key = "rctl" THEN "release" ELSE ""
  /\ key \in down
  /\ down' = down \ {key}
  /\ wire' = ""
  /\ shift' = shift \ (Shiftcode(key) \cup {"E0ESC"})
  /\ UNCHANGED <<input, pos, readers>>

--------------------------------------------------------------------------------
SysRead(p, k) ==
  /\ pc[p] = "user"
  /\ pc' = [pc EXCEPT ![p] = "read"]
  /\ n' = [n EXCEPT ![p] = k]
  /\ got' = [got EXCEPT ![p] = <<>>]
  /\ UNCHANGED <<input, pos, keyboard, killed>>

BugSaveEof(p, k) == FALSE

(* consoleread(): ^D after some bytes is saved for the next read. *)
SaveEof(p, k) == got[p] # <<>> \/ k > 0

(* consoleread(), from acquire(&cons.lock) to its return or its sleep. *)
ConsoleRead(p) ==
  \E k \in 0 .. Minus(w, r) :              \* bytes copied
    LET avail == Ring(r, w)
        done == k = n[p] \/ (k > 0 /\ avail[k] = "\n")
        eof == ~ done /\ k < Minus(w, r) /\ avail[k + 1] = "^D"
        returns == done \/ eof \/ p \in killed
    IN
    /\ pc[p] = "read" /\ Unlocked
    /\ k <= n[p]
    /\ \A i \in 1 .. k : avail[i] # "^D" /\ (i < k => avail[i] # "\n")
    /\ done \/ eof \/ k = Minus(w, r)
    /\ r' = (r + k + IF eof /\ ~ SaveEof(p, k) THEN 1 ELSE 0) % UINT
    /\ got' = [got EXCEPT ![p] = @ \o SubSeq(avail, 1, k)]
    /\ n' = [n EXCEPT ![p] = IF returns THEN 0 ELSE @ - k]
    /\ pc' = [pc EXCEPT ![p] = IF returns THEN "user" ELSE "tosleep"]
    /\ killed' = killed \ {p}
    /\ UNCHANGED <<buf, w, e, pos, keyboard>>

Sleep(p) ==
  /\ pc[p] = "tosleep"
  /\ pc' = [pc EXCEPT ![p] = "sleep"]
  /\ UNCHANGED <<input, pos, keyboard, n, got, killed>>

(* kill(); a killed reader exits when it is back from the read, and p is    *)
(* then another one.                                                        *)
Kill(p) ==
  /\ pc[p] # "user"
  /\ p \notin killed /\ killed' = killed \cup {p}
  /\ pc' = [pc EXCEPT ![p] = IF @ = "sleep" THEN "read" ELSE @]
  /\ UNCHANGED <<input, pos, keyboard, n, got>>

--------------------------------------------------------------------------------
Letters == {"^D", "^U", "^H", "^P"}

Next ==
  \/ \E c \in Letters \cup {"x", "\n", ""} : UartIntr(c)
  \/ \E c \in {"x", "\n"} : ConsoleWrite(c)
  \/ \E kind \in {"press", "release"} : KbdE0(kind)
  \/ \E key \in Letters \cup {"\n"} \cup Control : KbdPress(key)
  \/ \E key \in Control : KbdRelease(key)
  \/ \E p \in Proc, k \in Sizes : SysRead(p, k)
  \/ \E p \in Proc : ConsoleRead(p) \/ Sleep(p) \/ Kill(p)

Spec == Init /\ [][Next]_vars

--------------------------------------------------------------------------------
(***************************************************************************)
(* The ring, with its three wrapping indices, implements line editing:     *)
(* what readers get is what was typed and finished, in order, each         *)
(* character once, whoever reads, also when the ring fills up with an      *)
(* unfinished line (console.c:217-225) and when ^D is pushed back with     *)
(* other readers about (console.c:253-259).                                *)
(***************************************************************************)
Abs == INSTANCE AbsConsole WITH
         Size <- INPUT_BUF, Newline <- "\n", Eof <- "^D", Char <- {"x", "\n", "^D"},
         line <- Ring(w, e), ready <- Ring(r, w)
ImplementsTty == Abs!Spec

(***************************************************************************)
(* A reader sleeps only while there is nothing to read (console.c:244):    *)
(* no finished line, and no ^D pushed back, goes unnoticed.                *)
(***************************************************************************)
SleepJustified == \A p \in Proc : pc[p] = "sleep" => r = w

(***************************************************************************)
(* Wherever the boot left the cursor, it stays on the screen: the panic of *)
(* console.c:150 is not reached and nothing is stored outside the screen,  *)
(* with any mixture of output, echo and erasing.  A cursor above the last  *)
(* line stays above it, so that scrolling (console.c:152) is in time.      *)
(***************************************************************************)
CursorOK ==
  /\ [](pos \in 0 .. ROWS * COLS - 1)
  /\ [][pos < (ROWS - 1) * COLS => pos' < (ROWS - 1) * COLS]_pos

(***************************************************************************)
(* With no key half sent and no control key down, neither CTL nor E0ESC    *)
(* stays set (kbd.c:19-31), whichever control keys were pressed.           *)
(***************************************************************************)
NoStuckModifier == wire = "" /\ down = {} => shift = {}
================================================================================
