------------------------------- MODULE Keypress -------------------------------
(***************************************************************************)
(* get_keypress (monoboot_cli.c): wait up to delay seconds for a key, one  *)
(* alarm a second, with a signal handler that jumps out of getchar.        *)
(*                                                                         *)
(* Three actors: the program, the alarm clock and whoever types.  The      *)
(* build is -std=c99, so signal() installs a handler for one delivery, and *)
(* unoptimised, so c keeps its value over a longjmp.                       *)
(*                                                                         *)
(* The countdown is an int that is decremented behind the last second too, *)
(* and wraps below IntMin as that build makes it.                          *)
(*                                                                         *)
(* Abstractions.  An alarm may fire at any moment once it is armed.  A key *)
(* is a NUL, the end of the input or something else.  Standard input is a  *)
(* terminal, and its tcgetattr, tcsetattr and setvbuf succeed.             *)
(***************************************************************************)
EXTENDS Integers, Sequences, FiniteSets

CONSTANTS
  Delays,    \* the argument: the delay option of mb.conf
  IntMax,    \* the largest int
  Keys,      \* what may be typed
  MaxTyped   \* bound: keys typed in one call

Key == {"nul", "eof", "key"}
IntMin == -IntMax - 1
CInt == IntMin..IntMax
ASSUME DelaysAssumption == IntMax \in Nat /\ Delays \subseteq CInt /\ MaxTyped \in Nat
ASSUME KeysAssumption == Keys \subseteq Key

VARIABLES
  at,        \* where get_keypress is
  delay,     \* its argument, counted down
  c,         \* the key it has stored
  got,       \* what getchar is about to return
  ret,       \* its result
  armed,     \* an alarm is pending
  handler,   \* sig_alrm is installed; if not, SIGALRM kills the process
  canonical, \* ICANON and ECHO are set
  input,     \* keys typed and not read
  allowed,   \* history: the argument
  fired,     \* history: alarms delivered
  read,      \* history: the keys read
  typed      \* history: how many keys were typed

waitvars == <<at, delay, c, got, ret, armed, handler, canonical, input,
              allowed, fired, read, typed>>
waited == <<allowed, fired, read, typed>>

(* Every variable keeps its type.                                          *)
WaitTypeOK ==
  /\ at \in {"enter", "while", "signal", "alarm", "getchar", "got", "test",
             "expired", "refused", "ended", "failed",
             "returned", "killed", "undefined"}
  /\ delay \in CInt /\ allowed \in Delays
  /\ c \in Key /\ got \in Key
  /\ ret \in {"none", "key", "timeout", "error"}
  /\ armed \in BOOLEAN /\ handler \in BOOLEAN /\ canonical \in BOOLEAN
  /\ input \in Seq(Key) /\ read \in Seq(Key)
  /\ fired \in Nat /\ typed \in 0..MaxTyped

WaitInit ==
  /\ allowed \in Delays /\ delay = allowed
  /\ at = "enter" /\ c = "nul" /\ got = "nul" /\ ret = "none"
  /\ armed = FALSE /\ handler = FALSE /\ canonical = TRUE
  /\ input = <<>> /\ fired = 0 /\ read = <<>> /\ typed = 0

-----------------------------------------------------------------------------
(* The program *)

Return(result) == at' = "returned" /\ ret' = result

Enter ==
  /\ at = "enter"
  /\ IF delay = 0 THEN Return("timeout") /\ canonical' = canonical
                  ELSE at' = "while" /\ canonical' = FALSE /\ ret' = ret
  /\ UNCHANGED <<delay, c, got, armed, handler, input, waited>>

Dec(d) == IF d = IntMin THEN IntMax ELSE d - 1

(* Seeded fault: the loop's condition is delay-- >= 0.                     *)
WhileLong ==
  /\ at = "while" /\ delay >= 0
  /\ delay' = Dec(delay) /\ at' = "signal"
  /\ UNCHANGED <<c, got, ret, armed, handler, canonical, input, waited>>

(* delay-- in the loop's condition: the value tested is the one before.    *)
While ==
  /\ at = "while" /\ delay # 0
  /\ delay' = Dec(delay) /\ at' = "signal"
  /\ UNCHANGED <<c, got, ret, armed, handler, canonical, input, waited>>

(* Seeded fault: the loop's condition is --delay.                          *)
GiveUpEarly ==
  /\ at = "while" /\ delay \in {0, 1}
  /\ delay' = Dec(delay) /\ at' = "expired"
  /\ UNCHANGED <<c, got, ret, armed, handler, canonical, input, waited>>

(* The test that fails decrements too: delay is -1 behind the loop, and an *)
(* alarm that fires there jumps back into a loop whose test then holds.    *)
GiveUp ==
  /\ at = "while" /\ delay = 0
  /\ delay' = Dec(delay) /\ at' = "expired"
  /\ UNCHANGED <<c, got, ret, armed, handler, canonical, input, waited>>

(* Seeded fault: the handler is installed for the first second only.       *)
SignalOnce ==
  /\ at = "signal"
  /\ handler' = (handler \/ delay + 1 = allowed) /\ at' = "alarm"
  /\ UNCHANGED <<delay, c, got, ret, armed, canonical, input, waited>>

Signal ==
  /\ at = "signal"
  /\ handler' = TRUE /\ at' = "alarm"
  /\ UNCHANGED <<delay, c, got, ret, armed, canonical, input, waited>>

SignalFails ==
  /\ at = "signal"
  /\ at' = "refused"
  /\ UNCHANGED <<delay, c, got, ret, armed, handler, canonical, input, waited>>

(* Seeded fault: the terminal is only given back when a key was read.      *)
RestoreRaw ==
  /\ at \in {"expired", "refused"}
  /\ at' = IF at = "expired" THEN "ended" ELSE "failed"
  /\ UNCHANGED <<delay, c, got, ret, armed, handler, canonical, input, waited>>

Restore ==
  /\ at \in {"expired", "refused"}
  /\ canonical' = TRUE
  /\ at' = IF at = "expired" THEN "ended" ELSE "failed"
  /\ UNCHANGED <<delay, c, got, ret, armed, handler, input, waited>>

Leave ==
  /\ at \in {"ended", "failed"}
  /\ Return(IF at = "ended" THEN "timeout" ELSE "error")
  /\ UNCHANGED <<delay, c, got, armed, handler, canonical, input, waited>>

(* Seeded fault: the alarm is set for the first second only.               *)
AlarmOnce ==
  /\ at = "alarm"
  /\ armed' = (armed \/ delay + 1 = allowed) /\ at' = "getchar"
  /\ UNCHANGED <<delay, c, got, ret, handler, canonical, input, waited>>

(* setjmp has returned 0; alarm(1) replaces an alarm that is pending.      *)
Alarm ==
  /\ at = "alarm"
  /\ armed' = TRUE /\ at' = "getchar"
  /\ UNCHANGED <<delay, c, got, ret, handler, canonical, input, waited>>

(* The key has left the terminal; it is not in c yet.                      *)
GetChar ==
  /\ at = "getchar" /\ input # <<>>
  /\ got' = Head(input) /\ input' = Tail(input) /\ read' = Append(read, Head(input))
  /\ at' = "got"
  /\ UNCHANGED <<delay, c, ret, armed, handler, canonical, allowed, fired, typed>>

Assign ==
  /\ at = "got"
  /\ c' = got /\ at' = "test"
  /\ UNCHANGED <<delay, got, ret, armed, handler, canonical, input, waited>>

TestNothing ==
  /\ at = "test" /\ c = "nul"
  /\ at' = "while"
  /\ UNCHANGED <<delay, c, got, ret, armed, handler, canonical, input, waited>>

(* Seeded fault: the alarm is not cancelled.                               *)
TestKeyArmed ==
  /\ at = "test" /\ c # "nul"
  /\ canonical' = TRUE /\ Return("key")
  /\ UNCHANGED <<delay, c, got, armed, handler, input, waited>>

(* alarm(0) comes first: nothing interrupts the rest.                      *)
TestKey ==
  /\ at = "test" /\ c # "nul"
  /\ armed' = FALSE /\ canonical' = TRUE /\ Return("key")
  /\ UNCHANGED <<delay, c, got, handler, input, waited>>

-----------------------------------------------------------------------------
(* The alarm clock and the keyboard *)

(* Where sig_alrm's longjmp lands: at the test behind the setjmp, as long  *)
(* as get_keypress has not returned.                                       *)
LongJmp == IF at = "returned" THEN "undefined" ELSE "test"

Fire ==
  /\ armed /\ at \notin {"killed", "undefined"}
  /\ armed' = FALSE /\ handler' = FALSE /\ fired' = fired + 1
  /\ at' = IF handler THEN LongJmp ELSE "killed"
  /\ UNCHANGED <<delay, c, got, ret, canonical, input, allowed, read, typed>>

Type(k) ==
  /\ typed < MaxTyped
  /\ input' = Append(input, k) /\ typed' = typed + 1
  /\ UNCHANGED <<at, delay, c, got, ret, armed, handler, canonical, allowed, fired, read>>

Program ==
  \/ Enter \/ While \/ GiveUp \/ Signal \/ SignalFails \/ Alarm
  \/ GetChar \/ Assign \/ TestNothing \/ TestKey \/ Restore \/ Leave

WaitNext == Program \/ Fire \/ \E k \in Keys : Type(k)

WaitSpec == WaitInit /\ [][WaitNext]_waitvars
(* The program runs when it can, and an alarm that is armed goes off.      *)
WaitFairSpec == WaitSpec /\ WF_waitvars(Program) /\ WF_waitvars(Fire)

-----------------------------------------------------------------------------
(* Properties *)

Reads(k) == {n \in DOMAIN read : read[n] = k}

(* set_canonical: however get_keypress ends, the terminal is as it was.    *)
TerminalRestored == at \in {"returned", "undefined"} => canonical

(* alarm(0): no alarm outlives the call, except when the last second was   *)
(* cut short by a NUL; that alarm would jump into a frame that is gone.    *)
StrayAlarmOnlyAfterNul ==
  /\ at = "undefined" => Reads("nul") # {}
  /\ at = "returned" /\ armed => Reads("nul") # {} /\ ret # "key"

(* The countdown: nobody is told of a timeout before every second has      *)
(* ended in an alarm or in a NUL, nor of a key that was not typed.         *)
VerdictIsEarned ==
  /\ ret = "timeout" => fired + Cardinality(Reads("nul")) >= allowed
  /\ ret = "key" => Reads("key") \cup Reads("eof") # {}

(* signal() before every alarm(): the handler is back in place before the  *)
(* next alarm can fire, so SIGALRM never kills the boot.                   *)
NeverKilled == at # "killed"

(* The wait lasts no more seconds than it was given, for a delay that is   *)
(* not negative, unless a NUL left an alarm behind: that one may fire      *)
(* behind the loop, where delay is -1, and sends it round once more for    *)
(* every value an int has.                                                 *)
WaitIsBounded == allowed >= 0 /\ Reads("nul") = {} => fired <= allowed

(* The wait ends, whatever is typed and whenever: behind WaitIsBounded's   *)
(* exception, and from a negative delay, only when the int comes round.    *)
KeypressReturns == <>(at \in {"returned", "undefined"})
===============================================================================
