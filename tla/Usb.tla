-------------------------------- MODULE Usb --------------------------------
(***************************************************************************)
(* Bringing up USB: the command "usb init" of the console runs ohci_init   *)
(* (dev/ohci.c), which attaches the root hub as a device; the USB driver   *)
(* (dev/usb.c) enumerates it by messages that the host controller driver   *)
(* answers itself, in the place of a hub.                                  *)
(*                                                                         *)
(* One task runs all this. An action ends where memory is allocated or     *)
(* where a message has reached the hub, so that the failure of every       *)
(* allocation meets every state of the hub.                                *)
(***************************************************************************)
EXTENDS Naturals, Sequences, SequencesExt

CONSTANT NULL

VARIABLES
    pc,             \* where the console's task is; "idle" between commands
    request,        \* the request of the enumeration that is under way
    dev,            \* the struct usb_dev being set up, or NULL
    buf,            \* usb_attach_device: the string descriptor read last
    nextAddress,
    usb_devices,
    blocks,         \* memory allocated for the device, by the field it is for
    packets,        \* packets allocated for messages and not freed
    hub,            \* the root hub: addresses, state, what endpoint 0 will send
    HcControl       \* whether the controller is still in its reset state

vars == <<pc, request, dev, buf, nextAddress, usb_devices, blocks, packets, hub, HcControl>>
driver == <<nextAddress, usb_devices, HcControl>>

-----------------------------------------------------------------------------
(* Descriptors of the root hub *)

Text(i) == [kind |-> "string", of |-> i]
ohci_str_max == 5

DeviceDesc ==
    [kind |-> "device", manufacturer |-> 1, product |-> 2, serial |-> 3,
     bNumConfigurations |-> 1]
ConfigurationDesc == [kind |-> "configuration"]

\* Memory that was not written
Garbage == [kind |-> "garbage"]

Fields == {"manufacturer", "product", "serial"}
Zeroed ==
    [address |-> 0, config |-> NULL,
     device |-> [kind |-> "zeroed", manufacturer |-> 0, product |-> 0, serial |-> 0,
                 bNumConfigurations |-> 0],
     manufacturer |-> NULL, product |-> NULL, serial |-> NULL]

-----------------------------------------------------------------------------
(* The hub's side: hub_out and hub_in on endpoint 0 *)

HubStates == {"idle", "setup", "data", "status"}

\* get_descriptor; value says which string.
GetDescriptor(h, kind, value) ==
    [h EXCEPT
       !.state = "data",
       !.ep0 = IF kind = "device" THEN DeviceDesc
               ELSE IF kind = "configuration" THEN ConfigurationDesc
               ELSE IF value > ohci_str_max THEN NULL ELSE Text(value)]

\* Fault: the new address is used at once.
SetAddressNow(h, value) == [h EXCEPT !.address = value, !.state = "status"]

\* The address is used only after the transaction is complete.
SetAddress(h, value) == [h EXCEPT !.new_address = value, !.state = "status"]

\* Fault: a request is not abandoned for a new one.
HubSetupLate(h) == IF h.state = "data" THEN h ELSE [h EXCEPT !.state = "setup"]

HubSetup(h) == [h EXCEPT !.state = "setup"]

HubData(h, kind, value) ==
    IF h.state # "setup" THEN h
    ELSE IF kind = "address" THEN SetAddress(h, value)
    ELSE GetDescriptor(h, kind, value)

\* Fault: the address that has taken effect is still waiting to do so.
HubStatusTwice(h) ==
    IF h.state # "status" THEN h
    ELSE [h EXCEPT !.state = "idle",
                   !.address = IF h.new_address # 0 THEN h.new_address ELSE @]

HubStatus(h) ==
    IF h.state # "status" THEN h
    ELSE [h EXCEPT !.state = "idle", !.new_address = 0,
                   !.address = IF h.new_address # 0 THEN h.new_address ELSE @]

\* hub_in: what endpoint 0 holds, if anything, replaces old.
HubIn(h) == [h EXCEPT !.state = "status"]
Answer(h, old) == IF h.ep0 = NULL THEN old ELSE h.ep0

-----------------------------------------------------------------------------
(* The host's side *)

\* ohci_out: a message to another address than the hub's goes nowhere.
Heard == dev.address = hub.address
Out(h) == hub' = IF Heard THEN h ELSE hub

\* Fault: whoever owns the controller, it is taken over.
FreeForUse == TRUE

Unowned == HcControl = "reset"

\* ohci_init. On a controller in use, of another revision, or without memory for
\* the HCCA nothing changes; a hub with more than 15 ports is not attached.
OhciInit ==
    /\ pc = "idle" /\ Unowned
    /\ HcControl' = "operational"
    /\ pc' \in {"device", "idle"}
    /\ UNCHANGED <<request, dev, buf, nextAddress, usb_devices, blocks, packets, hub>>

AllocDevice ==
    /\ pc = "device"
    /\ \/ /\ dev' = Zeroed /\ blocks' = blocks \union {"dev"}
          /\ pc' = "completion"
       \/ pc' = "idle" /\ UNCHANGED <<dev, blocks>>
    /\ UNCHANGED <<request, buf, packets, hub, driver>>

\* The completion's FIFO; then the first request begins.
AllocCompletion ==
    /\ pc = "completion"
    /\ \/ /\ blocks' = blocks \union {"fifo"}
          /\ pc' = "setup" /\ request' = "address"
          /\ nextAddress' = (nextAddress + 1) % 256
       \/ pc' = "out_err" /\ UNCHANGED <<blocks, request, nextAddress>>
    /\ UNCHANGED <<dev, buf, usb_devices, packets, hub, HcControl>>

\* The address being assigned: nextAddress++
Asked == nextAddress - 1

\* Requests in their order. A string is asked for if the device has one.
Order == <<"address", "device", "manufacturer", "product", "serial">>

Wanted(d, r) == r \in Fields => d.device[r] > 0

\* What follows request r: another request, or the configurations.
Continue(d, r) ==
    LET at == CHOOSE i \in DOMAIN Order : Order[i] = r
        later == {i \in DOMAIN Order : i > at /\ Wanted(d, Order[i])}
        next == CHOOSE i \in later : \A j \in later : i <= j
    IN  IF later = {} THEN pc' = "configurations" /\ UNCHANGED request
        ELSE pc' = "setup" /\ request' = Order[next]

\* A request that cannot be made ends the enumeration, unless it is for a string.
RequestFails ==
    /\ IF request \in Fields THEN Continue(dev, request)
       ELSE pc' = "out_err" /\ UNCHANGED request
    /\ UNCHANGED hub

Messages == {"setup", "data", "in"}

\* One packet for each message of every request; counted no further than to one more.
PacketMax == 3 * (Len(Order) + 1)

\* The message of this step is sent: its packet is the host controller driver's
\* from then on (dev/usb.c:185), and neither ohci_out nor hub_out frees it.
Send(h) ==
    /\ Out(h)
    /\ packets' = IF packets > PacketMax THEN packets ELSE packets + 1

\* usb_token(dev, PID_SETUP, 0)
Setup ==
    /\ pc = "setup"
    /\ \/ Send(HubSetup(hub)) /\ pc' = "data" /\ UNCHANGED request
       \/ RequestFails /\ UNCHANGED packets
    /\ UNCHANGED <<dev, buf, blocks, driver>>

\* The request itself
Data ==
    LET kind == IF request \in Fields THEN "string" ELSE request
        value == IF request \in Fields THEN dev.device[request]
                 ELSE IF request = "address" THEN Asked ELSE 0
    IN  /\ pc = "data"
        /\ \/ Send(HubData(hub, kind, value)) /\ pc' = "in" /\ UNCHANGED request
           \/ RequestFails /\ UNCHANGED packets
        /\ UNCHANGED <<dev, buf, blocks, driver>>

\* usb_token(dev, PID_IN, 0)
In ==
    /\ pc = "in"
    /\ \/ /\ Send(HubStatus(hub))
          /\ pc' = IF request = "address" THEN "assign" ELSE "read"
          /\ UNCHANGED request
       \/ RequestFails /\ UNCHANGED packets
    /\ UNCHANGED <<dev, buf, blocks, driver>>

\* Nothing completes in_completion: wait() does not return. The root hub, which
\* has address 1, is not waited for.
Returns(address) == address <= 1

\* The end of usb_set_address
Assign ==
    /\ pc = "assign" /\ Returns(Asked)
    /\ dev' = [dev EXCEPT !.address = Asked]
    /\ Continue(dev, "address")
    /\ UNCHANGED <<buf, blocks, packets, hub, driver>>

ReadDevice ==
    /\ pc = "read" /\ request = "device" /\ Returns(dev.address)
    /\ Out(HubIn(hub))
    /\ dev' = [dev EXCEPT !.device = IF Heard THEN Answer(hub, @) ELSE @]
    /\ Continue(dev', "device")
    /\ UNCHANGED <<buf, blocks, packets, driver>>

\* The string is copied if there is memory for it; the serial number if there was
\* memory for the manufacturer's name (the copy to NULL that this allows is not
\* modelled).
ReadString ==
    /\ pc = "read" /\ request \in Fields /\ Returns(dev.address)
    /\ Out(HubIn(hub))
    /\ buf' = IF Heard THEN Answer(hub, buf) ELSE buf
    /\ \/ /\ dev' = [dev EXCEPT ![request] =
                       IF request = "serial" /\ dev.manufacturer = NULL THEN Garbage ELSE buf']
          /\ blocks' = blocks \union {request}
       \/ UNCHANGED <<dev, blocks>>
    /\ Continue(dev, request)
    /\ UNCHANGED <<packets, driver>>

\* The only configuration is asked for once there is memory for it.
AllocConfiguration ==
    /\ pc = "configurations"
    /\ \/ /\ dev.device.bNumConfigurations > 0
          /\ dev' = [dev EXCEPT !.config = Garbage]
          /\ blocks' = blocks \union {"config"}
          /\ pc' = "setup" /\ request' = "configuration"
       \/ pc' = "out_err" /\ UNCHANGED <<dev, blocks, request>>
    /\ UNCHANGED <<buf, packets, hub, driver>>

\* The device is registered.
ReadConfiguration ==
    LET d == [dev EXCEPT !.config = IF Heard THEN Answer(hub, @) ELSE @]
    IN  /\ pc = "read" /\ request = "configuration" /\ Returns(dev.address)
        /\ Out(HubIn(hub))
        /\ usb_devices' = <<d>> \o usb_devices
        /\ dev' = NULL /\ pc' = "idle"
        /\ UNCHANGED <<request, buf, blocks, packets, nextAddress, HcControl>>

\* The blocks that fields of the device point to
Owned(d) == {f \in Fields \union {"config"} : d[f] # NULL}

\* Fault: the completion's FIFO is left behind.
OutErrKeepsFifo ==
    /\ pc = "out_err"
    /\ blocks' = blocks \ ({"dev"} \union Owned(dev))
    /\ dev' = NULL /\ pc' = "idle"
    /\ UNCHANGED <<request, buf, packets, hub, driver>>

\* What the device and its fields point to is freed.
OutErr ==
    /\ pc = "out_err"
    /\ blocks' = blocks \ ({"fifo", "dev"} \union Owned(dev))
    /\ dev' = NULL /\ pc' = "idle"
    /\ UNCHANGED <<request, buf, packets, hub, driver>>

Init ==
    /\ pc = "idle" /\ request = "address" /\ dev = NULL /\ buf = Garbage
    /\ nextAddress = 1 /\ usb_devices = <<>> /\ blocks = {} /\ packets = 0
    /\ hub = [address |-> 0, new_address |-> 0, state |-> "idle", ep0 |-> NULL]
    /\ HcControl = "reset"

UsbAttachDevice ==
    \/ AllocDevice \/ AllocCompletion
    \/ Setup \/ Data \/ In \/ Assign \/ ReadDevice \/ ReadString
    \/ AllocConfiguration \/ ReadConfiguration \/ OutErr

Next == OhciInit \/ UsbAttachDevice

\* The console's task goes on with a command it began.
Spec == Init /\ [][Next]_vars /\ WF_vars(UsbAttachDevice)
-----------------------------------------------------------------------------
(* Properties *)

\* A device is being set up exactly while usb_attach_device has one, and the hub is
\* in one of its states; an address waits for the end of its transaction only.
TypeOK ==
    /\ pc \in {"idle", "device", "completion", "configurations", "assign", "read",
               "out_err"} \union Messages
    /\ (dev = NULL) <=> pc \in {"idle", "device"}
    /\ hub.state \in HubStates /\ hub.address \in 0 .. 255
    /\ hub.new_address # 0 => request = "address" /\ hub.state = "status"

\* The host speaks to the address the hub listens to, before, during and after
\* the change of that address, whatever request failed before (ohci_out and
\* ohci_in drop what is sent to another one).
HubHears == pc \in Messages \union {"read"} => Heard

\* A registered device has the hub's address and descriptors, and each of its
\* strings is the one its descriptor names or missing, although requests were
\* broken off in any state of the hub. The serial number may hold anything if there
\* was no memory for the manufacturer's name (usb_attach_device).
EnumeratedRight ==
    \A d \in ToSet(usb_devices) :
        /\ d.address = hub.address /\ d.device = DeviceDesc /\ d.config = ConfigurationDesc
        /\ \A f \in Fields : \/ d[f] \in {NULL, Text(DeviceDesc[f])}
                             \/ f = "serial" /\ d.manufacturer = NULL

\* What the command leaves allocated. For devices (the usb_dev, the FIFO of its
\* completion, its strings and configuration descriptors): what registered ones
\* point to, since a failed enumeration frees its own (out_err of
\* usb_attach_device). For messages: the packets of all that were sent, which the
\* host controller driver owns and never frees (dev/usb.c:185). Those are at most
\* one for each message of one enumeration, however often the command is given.
InitLeaves ==
    /\ pc = "idle" => blocks = UNION {{"dev", "fifo"} \union Owned(d) : d \in ToSet(usb_devices)}
    /\ packets <= PacketMax

\* "usb init" comes back to the console: nothing waits for in_completion, which
\* nobody completes (usb_set_address, usb_get_desc).
InitEnds == (pc # "idle") ~> (pc = "idle")
=============================================================================
