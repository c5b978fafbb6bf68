----------------------------- MODULE MCCommands -----------------------------
(* The drivers that do their work inside a command of the console, in one      *)
(* instance: Nand with two erase blocks of two pages and blocks of 2^3 bits,   *)
(* and Usb with its one controller and root hub. They share the console's task *)
(* and nothing else. A behaviour is one of the two: commands for the NAND, or  *)
(* "usb init" given again and again.                                           *)
EXTENDS Nand

VARIABLES pc, request, dev, strings, nextAddress, usb_devices, blocks, packets, hub,
          HcControl

usbVars ==
    <<pc, request, dev, strings, nextAddress, usb_devices, blocks, packets, hub, HcControl>>

Usb == INSTANCE Usb WITH buf <- strings, NULL <- Unknown

NandAtRest == given = 0 /\ flips = {}
UsbAtRest == HcControl = "reset"

MCInit == Init /\ Usb!Init

MCNext ==
    \/ UsbAtRest /\ Next /\ UNCHANGED usbVars
    \/ NandAtRest /\ Usb!Next /\ UNCHANGED vars

\* The fairness of Nand's FairSpec and of Usb's Spec
MCSpec ==
    /\ MCInit /\ [][MCNext]_<<vars, usbVars>>
    /\ WF_vars(DriverStep) /\ WF_vars(ChipDone)
    /\ WF_usbVars(Usb!UsbAttachDevice)

-----------------------------------------------------------------------------
(* The commands and the bits that change *)

Zeros == {}
Ramp == {b \in Bits : b[1] = 1 /\ b[2] = 0}

AllZero == [d \in Digits |-> 0]
AllOne == [d \in Digits |-> 1]

\* Two bits of the data of a block, and one of its code
MCWeak ==
    {<<3, BlockCol(2), AllZero>>, <<3, BlockCol(2), AllOne>>, <<3, CodeCol(2), <<2, 1>> >>}

Fill(p, s, x, y) == [op |-> "fillsect", page |-> p, sect |-> s, data |-> <<x, y>>]

MCCommandSet ==
    {[op |-> "reset"], [op |-> "readid"], [op |-> "bbscan"],
     [op |-> "readpage", page |-> 3],
     [op |-> "read", page |-> 3, col |-> CodeCol(3)],
     [op |-> "eraseblock", block |-> 1, yes |-> FALSE],
     [op |-> "eraseblock", block |-> 1, yes |-> TRUE],
     Fill(3, 1, Zeros, Ramp), Fill(3, 3, Ramp, Bits), Fill(2, 0, Ramp, Ramp)}

-----------------------------------------------------------------------------
(* The properties of Usb *)

\* The states of the enumeration and of the hub (Usb)
UsbTypeOK == Usb!TypeOK

\* Host and hub agree about the address (Usb)
HubHears == Usb!HubHears

\* A registered device has its right descriptors (Usb)
EnumeratedRight == Usb!EnumeratedRight

\* What the command leaves allocated (Usb)
InitLeaves == Usb!InitLeaves

\* "usb init" comes back to the console (Usb)
InitEnds == Usb!InitEnds
=============================================================================
