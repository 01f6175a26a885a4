---------------------------- MODULE BootCommand ----------------------------
(***************************************************************************)
(* The commands typed at the USB console (firmware/src/boot_cmd.c) and     *)
(* what main.c makes of them after the reset: a magic number in a register *)
(* that survives resets asks for the bootloader or for a format of the     *)
(* card.                                                                   *)
(*                                                                         *)
(* A line buffer of RxSize characters begins again when it is full, in the *)
(* middle of a line.                                                       *)
(***************************************************************************)
EXTENDS Integers, Sequences

CONSTANTS
    Chars,          \* characters typed
    Boot, Format,   \* the commands "boot" and "format-sd"
    RxSize,         \* BOOT_RX_BUF_LEN
    MaxLine,        \* bounds: characters of a line,
    MaxAsked        \*   lines that are commands

ASSUME CommandAssumption ==
    /\ Boot \in Seq(Chars) /\ Format \in Seq(Chars) /\ Boot # Format
    /\ RxSize \in Nat \ {0} /\ MaxLine \in Nat /\ MaxAsked \in Nat

VARIABLES
    rx,             \* rx_buf up to rx_idx
    gpregret,       \* NRF_POWER->GPREGRET: "0", "uf2" or "format"
    bootPc,         \* main(): "take", "init", "format", "run"; or "uf2"
    formatting,     \* format_sd_requested
    typed,          \* history: the line typed so far,
    asked, formats  \*   the lines that asked for a format; the formats

bootVars == <<rx, gpregret, bootPc, formatting, typed, asked, formats>>

BootInit ==
    /\ rx = <<>> /\ gpregret = "0" /\ bootPc = "take" /\ formatting = FALSE
    /\ typed = <<>> /\ asked = 0 /\ formats = 0

Listening == bootPc \in {"format", "run"}
EndsWith(line, command) ==
    /\ Len(line) >= Len(command)
    /\ SubSeq(line, Len(line) - Len(command) + 1, Len(line)) = command
-----------------------------------------------------------------------------
(* boot_cmd_uart_cb: a character; a newline; a newline after a command.    *)
TypeChar ==
    /\ Listening /\ Len(typed) < MaxLine
    /\ \E c \in Chars : /\ rx' = IF Len(rx) < RxSize - 1 THEN Append(rx, c) ELSE <<>>
                        /\ typed' = Append(typed, c)
    /\ UNCHANGED <<gpregret, bootPc, formatting, asked, formats>>

Reset == /\ rx' = <<>> /\ bootPc' = (IF gpregret' = "uf2" THEN "uf2" ELSE "take")
         /\ formatting' = FALSE

TypeNewline ==
    /\ Listening /\ rx \notin {Boot, Format}
    /\ rx' = <<>> /\ typed' = <<>>
    /\ UNCHANGED <<gpregret, bootPc, formatting, asked, formats>>

Command(command, magic) ==
    /\ Listening /\ rx = command /\ asked < MaxAsked
    /\ typed' = <<>>
    /\ asked' = IF EndsWith(typed, Format) THEN asked + 1 ELSE asked
    /\ gpregret' = magic
    /\ Reset
    /\ UNCHANGED formats

TakeRequestLater ==                                                  \* mutant
    /\ bootPc = "take"
    /\ formatting' = (gpregret = "format")
    /\ bootPc' = "init"
    /\ UNCHANGED <<rx, gpregret, typed, asked, formats>>

(* main: the request is taken back before anything is done about it.       *)
TakeRequest ==
    /\ bootPc = "take"
    /\ formatting' = (gpregret = "format")
    /\ gpregret' = IF gpregret = "format" THEN "0" ELSE gpregret
    /\ bootPc' = "init"
    /\ UNCHANGED <<rx, typed, asked, formats>>

(* The console listens from wr_boot_cmd_init on, the LED not failing.      *)
InitConsole ==
    /\ bootPc = "init" /\ bootPc' = "format"
    /\ UNCHANGED <<rx, gpregret, formatting, typed, asked, formats>>

RunFormat ==
    /\ bootPc = "format" /\ bootPc' = "run"
    /\ formats' = IF formatting THEN formats + 1 ELSE formats
    /\ UNCHANGED <<rx, gpregret, formatting, typed, asked>>

(* A watchdog or DMIC reset, a fault, the reset button; a loss of power    *)
(* clears the register, and so does the bootloader.                        *)
AnyReset ==
    /\ typed' = <<>> /\ gpregret' \in {gpregret, "0"}
    /\ bootPc = "uf2" => gpregret' = "0"
    /\ Reset
    /\ UNCHANGED <<asked, formats>>

BootNext ==
    \/ TypeChar \/ TypeNewline \/ Command(Boot, "uf2") \/ Command(Format, "format")
    \/ TakeRequest \/ InitConsole \/ RunFormat \/ AnyReset

BootSpec == BootInit /\ [][BootNext]_bootVars
-----------------------------------------------------------------------------
(* The card is formatted at most once for every line that ends in the      *)
(* command, whatever resets the device before, while and after it is done. *)
FormatOnlyWhenAsked == formats <= asked
=============================================================================
