------------------------------- MODULE Devices -------------------------------
(***************************************************************************)
(* The numbers of devices: the collector stores the readings of inverters  *)
(* and strings, batteries, temperatures and fans under the numbers it      *)
(* counts in each answer of the gateway (internal/collector/device.go),    *)
(* and the status page lists devices by numbers it counts itself           *)
(* (web/src/pages/Status.tsx).  Nothing else tells devices apart.          *)
(*                                                                         *)
(* A device is its place in the answer of the gateway, which keeps its     *)
(* order and names devices that do not answer as missing.                  *)
(***************************************************************************)
EXTENDS Naturals, Sequences, FiniteSets

CONSTANT
  Buses   \* what the gateway may answer: sequences of devices, each with
          \* whether it is measured, listed and has strings, and whether it
          \* has an ambient temperature and fans

ASSUME DevicesAssumption ==
  Buses \subseteq Seq([measured : BOOLEAN, listed : BOOLEAN, strings : BOOLEAN,
                       ambient : BOOLEAN, fans : BOOLEAN])

VARIABLES
  bus,      \* the answer
  stored,   \* what a collection has stored of it: by kind, device by number
  rows      \* the rows of the status page: device by number

deviceVars == <<bus, stored, rows>>

(* The number of a device that has something: those that have it are counted *)
(* up to it.  Numbers in the code begin with 0.                              *)
Number(devices, what, d) == Cardinality({e \in 1 .. d : devices[e][what]})

(* The numbers, each with its device. *)
Numbers(devices, what) ==
  {<<Number(devices, what, d), d>> : d \in {e \in DOMAIN devices : devices[e][what]}}

-----------------------------------------------------------------------------
(* Collect *)

(* Strings that counts what it stores. *)
StringsStored(devices) ==
  Numbers([d \in DOMAIN devices |-> [measured |-> devices[d].measured /\ devices[d].strings]],
          "measured")

(* An inverter whose strings are all without current and voltage stores no   *)
(* string, and has its number.                                               *)
StringNumbers(devices) ==
  {s \in Numbers(devices, "measured") : devices[s[2]].strings}

Recorded(devices) ==
  [strings   |-> StringNumbers(devices),
   inverters |-> Numbers(devices, "measured"),
   ambient   |-> Numbers(devices, "ambient"),
   fans      |-> Numbers(devices, "fans")]

(* Status: rows of the devices whose status is not missing, each with the    *)
(* vin the configuration, which knows all of them, has for its number.       *)
Rows(devices) == Numbers(devices, "listed")

Vin(n) == n

DevicesInit == bus = <<>> /\ stored = Recorded(<<>>) /\ rows = Rows(<<>>)

(* The gateway answers the collector and the status page. *)
DevicesAnswer ==
  /\ bus' \in Buses
  /\ stored' = Recorded(bus')
  /\ rows' = Rows(bus')

DevicesSpec == DevicesInit /\ [][DevicesAnswer]_deviceVars

-----------------------------------------------------------------------------
(* What was said of the devices before d, that is so now. *)
AsBefore(d, what) == \A e \in 1 .. d - 1 : bus[e][what] = bus'[e][what]

(* One number is one device: of the strings and of their inverter; in the    *)
(* row of the page, as long as the two flags of the devices up to it agree;  *)
(* and for its vin, as long as no device before it is missing.               *)
OneDeviceANumber ==
  /\ stored.strings \subseteq stored.inverters
  /\ \A r \in rows :
       /\ (\A e \in 1 .. r[2] : bus[e].measured = bus[e].listed) => r \in stored.inverters
       /\ (\A e \in 1 .. r[2] : bus[e].listed) => Vin(r[1]) = r[2]

(* From one collection to the next a device stays with its series unless a   *)
(* device before it went missing or came back, whatever happens to the ones  *)
(* behind it and to its strings; and in each, one number is one device       *)
(* (Collect, Status).                                                        *)
DevicesKeepNumbers ==
  [][/\ OneDeviceANumber'
     /\ \A s \in stored.inverters \cup stored.strings :
          \A t \in stored'.inverters \cup stored'.strings :
            s[2] = t[2] /\ AsBefore(s[2], "measured") => s[1] = t[1]
     /\ \A s \in stored.ambient, t \in stored'.ambient :
          s[2] = t[2] /\ AsBefore(s[2], "ambient") => s[1] = t[1]
     /\ \A s \in stored.fans, t \in stored'.fans :
          s[2] = t[2] /\ AsBefore(s[2], "fans") => s[1] = t[1]]_deviceVars
=============================================================================
