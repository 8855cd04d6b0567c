----------------------------- MODULE MCMachine ------------------------------
(* Small boards for Sbi: see README, "Machine mode".                       *)
EXTENDS Sbi

Node(name, props, kids) == [name |-> name, props |-> props, kids |-> kids]
One == <<<<"#address-cells", <<1>>>>, <<"#size-cells", <<1>>>>>>

Controller(handle) ==
    Node("ic", <<<<"#interrupt-cells", <<1>>>>, <<"interrupt-controller", <<>>>>, <<"phandle", <<handle>>>>>>, <<>>)
Cpu(h, handle, rest) ==
    Node("cpu", <<<<"device_type", <<"cpu">>>>, <<"reg", <<h>>>>, <<"status", <<"okay">>>>>> \o rest,
         <<Controller(handle)>>)
Sv39 == <<<<"mmu-type", <<"riscv,sv39">>>>>>
Cpus2(first, second) == Node("cpus", <<<<"#address-cells", <<1>>>>, <<"#size-cells", <<0>>>>>>, <<first, second>>)

(* The test board: the console behind the host, both harts fit.  The CLINT *)
(* wires them in the other order.                                          *)
HostBoard ==
    Node("", One, <<
        Cpus2(Cpu(0, 5, Sv39), Cpu(1, 6, Sv39)),
        Node("memory", <<<<"device_type", <<"memory">>>>, <<"reg", <<2, 3, 8, 7>>>>>>, <<>>),
        Node("soc", One, <<
            Node("clint", <<<<"compatible", <<"riscv,clint0">>>>, <<"reg", <<4, 1>>>>,
                            <<"interrupts-extended", <<6, 3, 6, 7, 5, 3, 5, 7>>>>>>, <<>>),
            Node("debug", <<<<"compatible", <<"sifive,debug-013", "riscv,debug-013">>>>>>,
                 <<Node("inner", <<<<"compatible", <<"riscv,debug-013">>>>>>, <<>>)>>)>>),
        Node("htif", <<<<"compatible", <<"ucb,htif0">>>>>>, <<>>)>>)

(* A larger one: two cells to an address, a UART and a PLIC, the second    *)
(* hart without an MMU, the CLINT before the harts and debug unit within.  *)
SocBoard ==
    Node("", <<<<"#address-cells", <<2>>>>, <<"#size-cells", <<1>>>>>>, <<
        Node("chosen", <<<<"riscv,kernel-start", <<0, 8>>>>, <<"riscv,kernel-end", <<1, 0>>>>>>, <<>>),
        Node("memory", <<<<"device_type", <<"memory">>>>, <<"reg", <<1, 0, 5>>>>>>, <<>>),
        Node("soc", <<<<"#address-cells", <<2>>>>, <<"#size-cells", <<1>>>>>>, <<
            Node("clint", <<<<"reg", <<1, 4, 1>>>>, <<"compatible", <<"sifive,clint0", "riscv,clint0">>>>,
                            <<"interrupts-extended", <<5, 3, 5, 7, 6, 3, 6, 7>>>>>>, <<>>),
            Node("plic", <<<<"compatible", <<"riscv,plic0">>>>, <<"reg", <<0, 7, 1>>>>, <<"riscv,ndev", <<2>>>>,
                           <<"interrupts-extended", <<5, IRQ_M_EXT, 5, IRQ_S_EXT, 6, IRQ_M_EXT>>>>>>, <<>>),
            Node("serial", <<<<"compatible", <<"sifive,uart0">>>>, <<"reg", <<0, 3, 1>>>>>>, <<>>),
            Node("serial", <<<<"compatible", <<"sifive,uart0">>>>, <<"reg", <<0, 5, 1>>>>>>, <<>>),
            Node("test", <<<<"compatible", <<"sifive,test0">>>>, <<"reg", <<0, 2, 1>>>>>>, <<>>)>>),
        Cpus2(Cpu(0, 5, Sv39), Cpu(1, 6, <<>>))>>)

(* No switch but the harts: another UART, the harts fit.                   *)
BareBoard ==
    Node("", One, <<
        Node("serial", <<<<"reg-shift", <<2>>>>, <<"compatible", <<"ns16550", "ns16550a">>>>,
                         <<"reg-offset", <<1>>>>, <<"reg", <<3, 1>>>>>>, <<>>),
        Node("memory", <<<<"reg", <<8, 6>>>>, <<"device_type", <<"memory">>>>>>, <<>>),
        Cpus2(Cpu(1, 6, Sv39), Cpu(0, 5, Sv39)),
        Node("clint", <<<<"compatible", <<"riscv,clint0">>>>, <<"reg", <<4, 1>>>>,
                        <<"interrupts-extended", <<5, 3, 5, 7, 6, 3, 6, 7>>>>>>, <<>>)>>)

(* The bare board twice: once for the IPI calls, once for its console.     *)
MCSends == <<0, 2, 2, 0>>
MCConsole == <<3, 2, 0, 2>>
MCTyped == <<2, 1, 0, 2>>
MCBoards == <<HostBoard, SocBoard, BareBoard, BareBoard>>
=============================================================================
