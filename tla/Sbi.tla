-------------------------------- MODULE Sbi ---------------------------------
(***************************************************************************)
(* The machine mode of riscv-pk: the boot of every hart (mentry.S, minit.c,*)
(* bbl.c), the calls a supervisor makes (mtrap.c) and the interrupts harts *)
(* send each other through the CLINT, and the console, shared under a lock *)
(* with the host behind two mailbox words (htif.c).                        *)
(*                                                                         *)
(* A hart executes in machine mode one shared access at a time and takes   *)
(* no interrupt there.  A store to the CLINT by another hart reaches a     *)
(* hart's mip after a delay (Deliver), its own store with the barrier      *)
(* after it at once.                                                       *)
(***************************************************************************)
EXTENDS Fdt

CONSTANTS MaxSends,   \* bound: IPI calls of the supervisor, by board
          MaxConsole, \* bound: its console calls, by board
          MaxTyped,   \* bound: characters typed at the console, by board
          FifoDepth   \* characters a 16550 holds each way (16 in the device)

VARIABLES wires,    \* which word of the CLINT drives a hart's MSIP
          word,     \* those words
          msip,     \* the MSIP bit a hart sees in mip
          ssip,     \* its SSIP bit
          pending,  \* mipi_pending of each hart
          pc,       \* where each hart is
          call,     \* the call each hart is in
          entry,    \* entry_point is set
          owed,     \* ghost: harts with a fence asked for by a finished call
          lock, tohost, fromhost, console_buf,   \* htif.c
          host,     \* the host: replies under way, a read outstanding, a UART's queues
          con       \* ghost: what was sent, printed, typed, got; the calls made

ipiVars == <<word, msip, ssip, pending, owed>>
htifVars == <<lock, tohost, fromhost, console_buf>>
bootVars == <<wires, entry>>
vars == <<fdtVars, bootVars, ipiVars, htifVars, pc, call, host, con>>

Harts == 0 .. MAX_HARTS - 1
Parked == {"park", "mask", "mip"}
Nobody == NoHart
Empty == [dev |-> -1, cmd |-> -1, data |-> 0]
Least(S) == CHOOSE h \in S : \A g \in S : h <= g

Idle == [todo |-> {}, ring |-> {}, event |-> "", incoming |-> FALSE, owe |-> {}, op |-> "", then |-> "smode"]

(* The word of the CLINT that drives each hart's MSIP.                     *)
WiringOf(t) ==
    LET clint == CHOOSE n \in Compatible(t, "riscv,clint0") : TRUE
    IN  [h \in HartsOf(t) \cap Harts |-> (CHOOSE w \in WiresOf(t, clint, 4, h) : TRUE).at]

Init ==
    /\ tree \in DOMAIN Boards
    /\ source = Flatten(Boards[tree]) /\ dest = <<>>
    /\ wires = WiringOf(Boards[tree])
    /\ scan = NoScan /\ board = NoBoard
    /\ word = [n \in Harts |-> 0]
    /\ msip = [h \in Harts |-> FALSE] /\ ssip = msip
    /\ pending = [h \in Harts |-> {}]
    /\ pc = [h \in Harts |-> IF h = 0 THEN "reset" ELSE "park"]
    /\ call = [h \in Harts |-> Idle]
    /\ entry = FALSE /\ owed = {}
    /\ lock = Nobody /\ tohost = Empty /\ fromhost = Empty /\ console_buf = 0
    /\ host = [replies |-> <<>>, reading |-> 0, on |-> TRUE, tx |-> <<>>, rx |-> <<>>]
    /\ con = [sent |-> <<>>, printed |-> <<>>, typed |-> <<>>, got |-> <<>>, sends |-> 0, asks |-> 0,
              raced |-> FALSE]

(* The word behind hls->ipi of a hart, and the hart's own stores to it.    *)
Ipi(h) == board.hls[h].ipi[2]
SetOwn(h, b) ==
    /\ word' = [word EXCEPT ![Ipi(h)] = b]
    /\ msip' = IF wires[h] = Ipi(h) THEN [msip EXCEPT ![h] = b = 1] ELSE msip
Goto(h, at) == pc' = [pc EXCEPT ![h] = at]

-----------------------------------------------------------------------------
(* init_first_hart: the queries, hart_init and hls_init(0) between the     *)
(* console's and the others.                                               *)
Queries == <<"uart", "uart16550", "htif", "finisher", "mem", "harts", "clint", "plic", "chosen">>
Redactions == <<"filter_harts", "filter_plic", "filter_clint", "filter_debug">>
After(list, q) == list[(CHOOSE i \in DOMAIN list : list[i] = q) + 1]

init_first_hart ==
    /\ pc[0] = "reset"
    /\ fdt_scan(Queries[1]) /\ Goto(0, "query")
    /\ UNCHANGED <<tree, source, dest, board, bootVars, ipiVars, htifVars, call, host, con>>

NextQuery ==
    /\ pc[0] = "query" /\ Scanned
    /\ IF scan.q = "chosen"
       THEN /\ board' = [board EXCEPT !.kernel = <<scan.x.start, scan.x.stop>>]
            /\ scan' = [scan EXCEPT !.q = ""]
            /\ Goto(0, "wake")
            /\ call' = [call EXCEPT ![0].todo = board.hart_mask \ board.disabled]
       ELSE /\ fdt_scan(After(Queries, scan.q))
            /\ board' = IF scan.q = "htif" THEN hls_init(board, 0) ELSE board
            /\ UNCHANGED <<pc, call>>
    /\ UNCHANGED <<tree, source, dest, bootVars, ipiVars, htifVars, host, con>>

wake_harts ==
    /\ pc[0] = "wake"
    /\ IF call[0].todo = {} THEN Goto(0, "init") /\ UNCHANGED <<word, call>>
       ELSE LET h == Least(call[0].todo) IN
            /\ word' = [word EXCEPT ![Ipi(h)] = 1]
            /\ call' = [call EXCEPT ![0].todo = @ \ {h}]
            /\ UNCHANGED pc
    /\ UNCHANGED <<fdtVars, bootVars, msip, ssip, pending, owed, htifVars, host, con>>

(* hart_plic_init; the first hart then rounds the memory and copies the    *)
(* tree for the payload (filter_dtb).                                      *)
hart_plic_init(h) ==
    /\ pc[h] = "init"
    /\ SetOwn(h, 0)
    /\ ssip' = [ssip EXCEPT ![h] = FALSE]
    /\ IF h = 0
       THEN /\ dest' = source
            /\ board' = [board EXCEPT !.mem_size = (@ \div MEGAPAGE_SIZE) * MEGAPAGE_SIZE,
                                      !.disabled = {}]
            /\ fdt_scan(Redactions[1]) /\ Goto(0, "filter")
       ELSE /\ Goto(h, "boot")
            /\ UNCHANGED <<dest, board, scan>>
    /\ UNCHANGED <<tree, source, bootVars, pending, owed, htifVars, call, host, con>>

NextFilter ==
    /\ pc[0] = "filter" /\ Scanned
    /\ IF scan.q = "filter_debug"
       THEN entry' = TRUE /\ scan' = [scan EXCEPT !.q = ""] /\ Goto(0, "boot")
       ELSE fdt_scan(After(Redactions, scan.q)) /\ UNCHANGED <<entry, pc>>
    /\ UNCHANGED <<tree, source, dest, board, wires, ipiVars, htifVars, call, host, con>>

Scanning == ScanToken /\ UNCHANGED <<bootVars, ipiVars, htifVars, pc, call, host, con>>

(* The other harts wait for a wakeup: wfi may return at any time; then the *)
(* mask is read and then mip.                                              *)
multiHart(h) ==
    /\ \/ pc[h] = "park" /\ Goto(h, "mask")
       \/ pc[h] = "mask" /\ Goto(h, IF h \in board.disabled THEN "park" ELSE "mip")
       \/ pc[h] = "mip" /\ Goto(h, IF msip[h] THEN "init" ELSE "park")
    /\ UNCHANGED <<fdtVars, bootVars, ipiVars, htifVars, call, host, con>>

boot_other_hart(h) ==
    /\ pc[h] = "boot" /\ entry
    /\ Goto(h, IF h \in board.disabled THEN "off" ELSE "smode")
    /\ UNCHANGED <<fdtVars, bootVars, ipiVars, htifVars, call, host, con>>

-----------------------------------------------------------------------------
(* Interrupts.                                                             *)
Deliver(h) ==
    /\ h \in DOMAIN wires
    /\ pc[h] \in Parked \cup {"smode"}
    /\ msip[h] # (word[wires[h]] = 1)
    /\ msip' = [msip EXCEPT ![h] = ~@]
    /\ UNCHANGED <<fdtVars, bootVars, word, ssip, pending, owed, htifVars, pc, call, host, con>>

(* trap_vector: the word is cleared first, then the causes are taken.      *)
TakeIpi(h) ==
    /\ pc[h] = "smode" /\ msip[h]
    /\ SetOwn(h, 0)
    /\ Goto(h, "causes")
    /\ UNCHANGED <<fdtVars, bootVars, ssip, pending, owed, htifVars, call, host, con>>

Causes(h) ==
    /\ pc[h] = "causes"
    /\ pending' = [pending EXCEPT ![h] = {}]
    /\ ssip' = [ssip EXCEPT ![h] = @ \/ "soft" \in pending[h]]
    /\ IF "fence" \in pending[h]
       THEN /\ owed' = owed \ {h}
            /\ call' = [g \in Harts |-> [call[g] EXCEPT !.owe = @ \ {h}]]
       ELSE UNCHANGED <<owed, call>>
    /\ Goto(h, IF "halt" \in pending[h] THEN "halted" ELSE "smode")
    /\ UNCHANGED <<fdtVars, bootVars, word, msip, htifVars, host, con>>

-----------------------------------------------------------------------------
(* Calls of the supervisor (mcall_trap).                                   *)
MayCall(h) == pc[h] = "smode" /\ ~msip[h]
Supervising == {h \in Harts : pc[h] \notin Parked \cup {"init", "boot", "off", "reset", "query", "wake", "filter"}}

(* send_ipi_many to the harts of a mask.  A call owes a fence to the harts *)
(* that run a supervisor when it is made.                                  *)
SendMany(h, mask, event) ==
    call' = [call EXCEPT ![h] =
        [todo |-> mask, ring |-> {}, event |-> event, incoming |-> FALSE, op |-> "", then |-> "smode",
         owe |-> IF event = "fence" THEN (mask \cap Supervising) \ board.disabled ELSE {}]]

mcall_send_ipi(h) ==
    /\ MayCall(h) /\ con.sends < MaxSends[tree]
    /\ con' = [con EXCEPT !.sends = @ + 1]
    /\ \E event \in {"soft", "fence"}, mask \in {{g} : g \in board.hart_mask} \cup {board.hart_mask} :
          SendMany(h, mask, event)
    /\ Goto(h, "send")
    /\ UNCHANGED <<fdtVars, bootVars, ipiVars, htifVars, host>>

mcall_clear_ipi(h) ==
    /\ MayCall(h) /\ ssip[h]
    /\ ssip' = [ssip EXCEPT ![h] = FALSE]
    /\ UNCHANGED <<fdtVars, bootVars, word, msip, pending, owed, htifVars, pc, call, host, con>>

(* send_ipi: the event first, then the word; none to a masked hart.  What  *)
(* is sent is waited for in the same order afterwards.                     *)
send_ipi(h) ==
    /\ pc[h] = "send" /\ call[h].todo # {}
    /\ LET i == Least(call[h].todo) IN
       IF i \in board.disabled
       THEN /\ call' = [call EXCEPT ![h].todo = @ \ {i}, ![h].ring = @ \cup {i}]
            /\ UNCHANGED <<pending, pc>>
       ELSE /\ pending' = [pending EXCEPT ![i] = @ \cup {call[h].event}]
            /\ Goto(h, "ring")
            /\ UNCHANGED call
    /\ UNCHANGED <<fdtVars, bootVars, word, msip, ssip, owed, htifVars, host, con>>

Ring(h) ==
    /\ pc[h] = "ring"
    /\ LET i == Least(call[h].todo) IN
       /\ IF i = h THEN SetOwn(h, 1) ELSE word' = [word EXCEPT ![Ipi(i)] = 1] /\ UNCHANGED msip
       /\ call' = [call EXCEPT ![h].todo = @ \ {i}, ![h].ring = @ \cup {i}]
    /\ Goto(h, "send")
    /\ UNCHANGED <<fdtVars, bootVars, ssip, pending, owed, htifVars, host, con>>

AllSent(h) ==
    /\ pc[h] = "send" /\ call[h].todo = {}
    /\ call' = [call EXCEPT ![h].todo = call[h].ring, ![h].ring = {}]
    /\ Goto(h, IF call[h].event = "soft" THEN "smode" ELSE "wait")
    /\ UNCHANGED <<fdtVars, bootVars, ipiVars, htifVars, host, con>>

(* Wait for each word to be cleared, consuming one's own meanwhile.        *)
Wait(h) ==
    /\ pc[h] = "wait" /\ call[h].todo # {}
    /\ LET i == Least(call[h].todo) IN
       IF word[Ipi(i)] = 0
       THEN call' = [call EXCEPT ![h].todo = @ \ {i}] /\ UNCHANGED pc
       ELSE Goto(h, "swap") /\ UNCHANGED call
    /\ UNCHANGED <<fdtVars, bootVars, ipiVars, htifVars, host, con>>

(* Mutant: a waiting hart leaves its own word alone.                       *)
Swap_NoConsume(h) ==
    /\ pc[h] = "swap"
    /\ Goto(h, "wait")
    /\ UNCHANGED <<fdtVars, bootVars, ipiVars, htifVars, call, host, con>>

Swap(h) ==
    /\ pc[h] = "swap"
    /\ call' = [call EXCEPT ![h].incoming = @ \/ word[Ipi(h)] = 1]
    /\ SetOwn(h, 0)
    /\ Goto(h, "wait")
    /\ UNCHANGED <<fdtVars, bootVars, ssip, pending, owed, htifVars, host, con>>

(* Mutant: the consumed interrupt is forgotten.                            *)
SentMany_NoRestore(h) ==
    /\ pc[h] = "wait" /\ call[h].todo = {}
    /\ owed' = owed \cup call[h].owe
    /\ call' = [call EXCEPT ![h].owe = {}, ![h].incoming = FALSE]
    /\ Goto(h, IF call[h].event = "halt" THEN "off" ELSE "smode")
    /\ UNCHANGED <<fdtVars, bootVars, word, msip, ssip, pending, htifVars, host, con>>

(* A consumed interrupt is restored and taken after returning.             *)
SentMany(h) ==
    /\ pc[h] = "wait" /\ call[h].todo = {}
    /\ IF call[h].incoming THEN SetOwn(h, 1) ELSE UNCHANGED <<word, msip>>
    /\ owed' = owed \cup call[h].owe
    /\ call' = [call EXCEPT ![h].owe = {}, ![h].incoming = FALSE]
    /\ Goto(h, IF call[h].event = "halt" THEN "off" ELSE "smode")
    /\ UNCHANGED <<fdtVars, bootVars, ssip, pending, htifVars, host, con>>

-----------------------------------------------------------------------------
(* The console.  A SiFive UART accepts a character, or hands one over, in  *)
(* the access that tells whether it could: an amoor there, a load here.    *)
Uart == board.uart # 0 \/ board.uart16550 # <<>>
Character == Len(con.sent) + 1
MayAsk(h) == MayCall(h) /\ con.asks < MaxConsole[tree]

uart_putchar(h) ==
    /\ MayAsk(h) /\ board.uart # 0
    /\ con' = [con EXCEPT !.asks = @ + 1, !.sent = Append(@, Character), !.printed = Append(@, Character)]
    /\ UNCHANGED <<fdtVars, bootVars, ipiVars, htifVars, pc, call, host>>

uart_getchar(h) ==
    /\ MayAsk(h) /\ board.uart # 0 /\ host.rx # <<>>
    /\ con' = [con EXCEPT !.asks = @ + 1, !.got = Append(@, Head(host.rx))]
    /\ host' = [host EXCEPT !.rx = Tail(@)]
    /\ UNCHANGED <<fdtVars, bootVars, ipiVars, htifVars, pc, call>>

(* The other consoles take several accesses.                               *)
mcall_console(h) ==
    /\ MayAsk(h) /\ board.uart = 0
    /\ \E op \in IF board.uart16550 # <<>> THEN {"transmit", "receive"}
                 ELSE {o \in {"putchar", "getchar", "syscall"} : board.htif} : Goto(h, op)
    /\ con' = [con EXCEPT !.asks = @ + 1]
    /\ UNCHANGED <<fdtVars, bootVars, ipiVars, htifVars, call, host>>

(* A 16550 is polled and then accessed, without a lock: it is ready when   *)
(* its transmit queue is empty, and loses a character written to a full    *)
(* one.                                                                    *)
AwaitReady(h) ==
    /\ pc[h] = "transmit" /\ host.tx = <<>>
    /\ Goto(h, "store")
    /\ UNCHANGED <<fdtVars, bootVars, ipiVars, htifVars, call, host, con>>

uart16550_putchar(h) ==
    /\ pc[h] = "store"
    /\ con' = [con EXCEPT !.sent = Append(@, Character)]
    /\ host' = IF Len(host.tx) < FifoDepth THEN [host EXCEPT !.tx = Append(@, Character)] ELSE host
    /\ Goto(h, call[h].then)
    /\ UNCHANGED <<fdtVars, bootVars, ipiVars, htifVars, call>>

(* What an empty receive queue holds is no character.  Two harts race when *)
(* both have seen one and neither has read it.                             *)
NoCharacter == 0
AskReady(h) ==
    /\ pc[h] = "receive"
    /\ Goto(h, IF host.rx = <<>> THEN "smode" ELSE "load")
    /\ con' = [con EXCEPT !.raced = @ \/ (host.rx # <<>> /\ \E g \in Harts : pc[g] = "load")]
    /\ UNCHANGED <<fdtVars, bootVars, ipiVars, htifVars, call, host>>

uart16550_getchar(h) ==
    /\ pc[h] = "load"
    /\ LET queue == host.rx IN
       /\ con' = [con EXCEPT !.got = Append(@, IF queue = <<>> THEN NoCharacter ELSE Head(queue))]
       /\ host' = [host EXCEPT !.rx = IF queue = <<>> THEN @ ELSE Tail(@)]
    /\ Goto(h, "smode")
    /\ UNCHANGED <<fdtVars, bootVars, ipiVars, htifVars, call>>

Console(h) == pc[h] \in {"putchar", "getchar", "syscall"}

htif_lock(h) ==
    /\ Console(h) /\ lock = Nobody
    /\ lock' = h
    /\ call' = [call EXCEPT ![h].op = pc[h]]
    /\ Goto(h, IF pc[h] = "getchar" THEN "check" ELSE "set")
    /\ UNCHANGED <<fdtVars, bootVars, ipiVars, tohost, fromhost, console_buf, host, con>>

(* __check_fromhost: the answer of the console, taken out of its word.     *)
__check_fromhost ==
    IF fromhost = Empty THEN UNCHANGED <<fromhost, console_buf>>
    ELSE /\ fromhost' = Empty
         /\ console_buf' = IF fromhost.cmd = 0 THEN 1 + fromhost.data ELSE console_buf

htif_console_getchar(h) ==
    /\ pc[h] = "check"
    /\ __check_fromhost
    /\ Goto(h, "read")
    /\ UNCHANGED <<fdtVars, bootVars, ipiVars, lock, tohost, call, host, con>>

(* A character read, or the first call, asks for the next one.             *)
ReadBuffer(h) ==
    /\ pc[h] = "read"
    /\ con' = IF console_buf >= 1 THEN [con EXCEPT !.got = Append(@, console_buf - 1)] ELSE con
    /\ console_buf' = IF console_buf >= 0 THEN -1 ELSE console_buf
    /\ Goto(h, IF console_buf >= 0 THEN "set" ELSE "unlock")
    /\ UNCHANGED <<fdtVars, bootVars, ipiVars, lock, tohost, fromhost, call, host>>

Command(h) ==
    CASE call[h].op = "putchar" -> [dev |-> 1, cmd |-> 1, data |-> Character]
      [] call[h].op = "getchar" -> [dev |-> 1, cmd |-> 0, data |-> 0]
      [] call[h].op = "syscall" -> [dev |-> 0, cmd |-> 0, data |-> 0]

__set_tohost(h) ==
    /\ pc[h] = "set"
    /\ IF tohost # Empty
       THEN __check_fromhost /\ UNCHANGED <<tohost, pc, con>>
       ELSE /\ tohost' = Command(h)
            /\ con' = IF call[h].op = "putchar" THEN [con EXCEPT !.sent = Append(@, Character)] ELSE con
            /\ Goto(h, IF call[h].op = "syscall" THEN "reply" ELSE "unlock")
            /\ UNCHANGED <<fromhost, console_buf>>
    /\ UNCHANGED <<fdtVars, bootVars, ipiVars, lock, call, host>>

(* Mutant: a reply that is not its own is thrown away.                     *)
do_tohost_fromhost_Drops(h) ==
    /\ pc[h] = "reply" /\ fromhost # Empty
    /\ fromhost' = Empty
    /\ IF fromhost.dev = 0 THEN Goto(h, "unlock") ELSE UNCHANGED pc
    /\ UNCHANGED <<fdtVars, bootVars, ipiVars, lock, tohost, console_buf, call, host, con>>

(* do_tohost_fromhost waits for its own reply; others' are the console's.  *)
do_tohost_fromhost(h) ==
    /\ pc[h] = "reply" /\ fromhost # Empty
    /\ IF fromhost.dev = 0
       THEN fromhost' = Empty /\ Goto(h, "unlock") /\ UNCHANGED console_buf
       ELSE __check_fromhost /\ UNCHANGED pc
    /\ UNCHANGED <<fdtVars, bootVars, ipiVars, lock, tohost, call, host, con>>

htif_unlock(h) ==
    /\ pc[h] = "unlock"
    /\ lock' = Nobody
    /\ Goto(h, call[h].then)
    /\ UNCHANGED <<fdtVars, bootVars, ipiVars, tohost, fromhost, console_buf, call, host, con>>

(* mcall_shutdown prints its notice, one character here, and powers off:   *)
(* by the finisher if there is one, by the host without its lock, or by    *)
(* telling every hart to halt, this one included.                          *)
mcall_shutdown(h) ==
    /\ MayCall(h)
    /\ IF board.uart # 0
       THEN /\ con' = [con EXCEPT !.sent = Append(@, Character), !.printed = Append(@, Character)]
            /\ Goto(h, "poweroff")
       ELSE /\ Goto(h, CASE board.uart16550 # <<>> -> "transmit"
                         [] board.uart16550 = <<>> /\ board.htif -> "putchar"
                         [] OTHER -> "poweroff")
            /\ UNCHANGED con
    /\ call' = [call EXCEPT ![h].then = "poweroff"]
    /\ UNCHANGED <<fdtVars, bootVars, ipiVars, htifVars, host>>

poweroff(h) ==
    /\ pc[h] = "poweroff"
    /\ IF board.finisher # 0 THEN host' = [host EXCEPT !.on = FALSE] ELSE UNCHANGED host
    /\ IF board.htif
       THEN /\ fromhost' = Empty /\ tohost' = [dev |-> 0, cmd |-> 0, data |-> 1]
            /\ Goto(h, "off")
            /\ UNCHANGED call
       ELSE /\ SendMany(h, board.hart_mask, "halt") /\ Goto(h, "send")
            /\ UNCHANGED <<fromhost, tohost>>
    /\ UNCHANGED <<fdtVars, bootVars, ipiVars, lock, console_buf, con>>

-----------------------------------------------------------------------------
(* The host, as the code uses it: it empties tohost, answers every command *)
(* of the console and every system call once, a read when there is a       *)
(* character, and fills fromhost when it is empty.                         *)
HostTake ==
    /\ tohost # Empty
    /\ tohost' = Empty
    /\ host' = CASE tohost.dev = 0 /\ tohost.data = 1 -> [host EXCEPT !.on = FALSE]
                 [] tohost.dev = 1 /\ tohost.cmd = 0 -> [host EXCEPT !.reading = @ + 1]
                 [] OTHER -> [host EXCEPT !.replies = Append(@, [tohost EXCEPT !.data = 0])]
    /\ con' = IF tohost.dev = 1 /\ tohost.cmd = 1
              THEN [con EXCEPT !.printed = Append(@, tohost.data)] ELSE con
    /\ UNCHANGED <<fdtVars, bootVars, ipiVars, lock, fromhost, console_buf, pc, call>>

HostReply ==
    /\ fromhost = Empty /\ host.replies # <<>>
    /\ fromhost' = Head(host.replies)
    /\ host' = [host EXCEPT !.replies = Tail(@)]
    /\ UNCHANGED <<fdtVars, bootVars, ipiVars, lock, tohost, console_buf, pc, call, con>>

HostType ==
    /\ Len(con.typed) < MaxTyped[tree]
    /\ con' = [con EXCEPT !.typed = Append(@, Len(@) + 1)]
    /\ IF Uart
       THEN /\ Len(host.rx) < FifoDepth
            /\ host' = [host EXCEPT !.rx = Append(@, Len(con.typed) + 1)]
       ELSE /\ host.reading > 0
            /\ host' = [host EXCEPT !.reading = @ - 1,
                   !.replies = Append(@, [dev |-> 1, cmd |-> 0, data |-> Len(con.typed) + 1])]
    /\ UNCHANGED <<fdtVars, bootVars, ipiVars, htifVars, pc, call>>

(* A 16550 sends off what it was given.                                    *)
Transmit ==
    /\ host.tx # <<>>
    /\ con' = [con EXCEPT !.printed = Append(@, Head(host.tx))]
    /\ host' = [host EXCEPT !.tx = Tail(@)]
    /\ UNCHANGED <<fdtVars, bootVars, ipiVars, htifVars, pc, call>>

-----------------------------------------------------------------------------
Machine(h) ==
    \/ hart_plic_init(h) \/ boot_other_hart(h) \/ multiHart(h)
    \/ TakeIpi(h) \/ Causes(h)
    \/ send_ipi(h) \/ Ring(h) \/ AllSent(h) \/ Wait(h) \/ Swap(h) \/ SentMany(h)
    \/ htif_lock(h) \/ htif_console_getchar(h) \/ ReadBuffer(h) \/ __set_tohost(h)
    \/ do_tohost_fromhost(h) \/ htif_unlock(h) \/ poweroff(h)
    \/ AwaitReady(h) \/ uart16550_putchar(h) \/ AskReady(h) \/ uart16550_getchar(h)
Supervisor(h) == mcall_send_ipi(h) \/ mcall_clear_ipi(h) \/ uart_putchar(h) \/ uart_getchar(h)
                 \/ mcall_console(h) \/ mcall_shutdown(h)
FirstHart == init_first_hart \/ NextQuery \/ wake_harts \/ NextFilter \/ Scanning
Host == HostTake \/ HostReply \/ Transmit

Next ==
    /\ host.on
    /\ \/ FirstHart \/ Host \/ HostType
       \/ \E h \in Harts : Machine(h) \/ Supervisor(h) \/ Deliver(h)

Spec == Init /\ [][Next]_vars

(* A hart not stopped goes on, a store reaches its word, the host serves;  *)
(* the supervisor need not call.                                           *)
FairSpec ==
    /\ Spec
    /\ WF_vars(host.on /\ FirstHart)
    /\ WF_vars(host.on /\ Host)
    /\ \A h \in Harts : WF_vars(host.on /\ Machine(h)) /\ WF_vars(host.on /\ Deliver(h))

-----------------------------------------------------------------------------
(* Every query finds what the tree says - the consoles and the finisher,   *)
(* the memory, the harts, the CLINT, the PLIC and the kernel of the chosen *)
(* node - whatever its order, spacing and cell counts, no assertion of     *)
(* theirs fails, and once the payload runs the tree it is handed hides the *)
(* CLINT, the debug unit, the unfit harts and the PLIC's machine contexts, *)
(* and nothing else (fdt.c, bbl.c filter_dtb).                             *)
TreeRight ==
    /\ scan.ok
    /\ pc[0] = "boot" =>
          /\ Found(Boards[tree], board)
          /\ PayloadSees(Boards[tree], dest)
          /\ board.disabled = {Reg(n) : n \in {c \in Cpus(Boards[tree]) : Unfit(c.node)}}

(* When a remote fence has returned, no hart it was meant for executes     *)
(* another supervisor instruction before the fence, though two senders     *)
(* consume each other's interrupts while they wait (mtrap.c send_ipi_many).*)
FenceFirst == \A h \in Harts : pc[h] = "smode" /\ ~msip[h] => h \notin owed

(* The console loses, duplicates and reorders nothing in either direction, *)
(* whichever hart finds the answer in fromhost and though two harts find a *)
(* 16550 ready at the same time, until a hart powers off over what is still*)
(* in the mailbox (htif.c, uart16550.c).  A character nobody typed is read *)
(* only after two harts have raced for the last one of a 16550.            *)
InFlight ==
    LET Data(r) == IF r.dev = 1 /\ r.cmd = 0 THEN <<r.data>> ELSE <<>>
    IN  (IF console_buf >= 1 THEN <<console_buf - 1>> ELSE <<>>) \o Data(fromhost)
            \o FlattenSeq([i \in DOMAIN host.replies |-> Data(host.replies[i])]) \o host.rx
Accepted == (IF tohost.dev = 1 /\ tohost.cmd = 1 THEN <<tohost.data>> ELSE <<>>) \o host.tx
PoweredOff == \E h \in Harts \ board.disabled : pc[h] = "off"
ConsoleRight == ~PoweredOff =>
    /\ con.printed \o Accepted = con.sent
    /\ SelectSeq(con.got, LAMBDA c : c # NoCharacter) \o InFlight = con.typed
    /\ NoCharacter \in ToSet(con.got) => con.raced

(* A hart that waits for its fences stops waiting, whoever else sends at   *)
(* the same time, unless a hart was shut down, or masked before it had seen*)
(* the wakeup that stands in its word (mtrap.c "prevent deadlock").        *)
Unanswering == \E i \in board.hart_mask : pc[i] \in Parked \cup {"halted", "off"} /\ word[Ipi(i)] = 1
CallsEnd ==
    \A h \in Harts : pc[h] = "wait" ~> (pc[h] \notin {"wait", "swap"} \/ Unanswering \/ ~host.on)
=============================================================================
