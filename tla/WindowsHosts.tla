----------------------------- MODULE WindowsHosts -----------------------------
(* What the resolvers of lib/src/facts/windows collect. h.wmi holds the       *)
(* answers of the WMI queries; a query that fails has an empty answer.        *)
EXTENDS PosixHosts

\* The description is trimmed to what stands before the last dot.
WindowsKernel(h) ==
    LET release == IF h.version = <<>> THEN <<>> ELSE Front(h.version)
    IN  [name |-> "windows", release |-> release, version |-> release]

WindowsDmi(h) ==
    [f \in {r[3] : r \in BiosRows \cup BoardRows \cup ProductRows \cup ChassisRows
                             \cup MakerRows} |->
        CASE f = "product_name"  -> h.wmi.product
          [] f = "serial_number" -> h.wmi.serial
          [] f = "manufacturer"  -> h.wmi.manufacturer
          [] OTHER               -> ""]

WindowsIdentity(h) == [user_name |-> h.user, user_id |-> "", group_name |-> "", group_id |-> ""]

WindowsMemory(h) ==
    LET m == h.memory
    IN  [mem_total |-> IF m.ok THEN m.total * m.page_size ELSE 0,
         mem_free  |-> IF m.ok THEN m.available * m.page_size ELSE 0,
         swap_total |-> 0, swap_free |-> 0, swap_encryption |-> "unknown"]

\* -------------------------------------------------------------- networking

\* h.masks: what GetAdaptersInfo says of an address, on a system that is older than
\* the structure with the prefix lengths.
WindowsAddress(iface, a, legacy, masks) ==
    LET text == AddressText(a.family, a.address)
        \* the mask and the DHCP server
        known == IF ~legacy THEN [mask |-> a.mask, dhcp |-> iface.dhcp]
                 ELSE Get(masks, text, [mask |-> <<>>, dhcp |-> iface.dhcp])
        mask == AddressText(a.family, known.mask)
        network == AddressText(a.family, Masked(a.address, known.mask))
        leased == [iface EXCEPT !.dhcp = known.dhcp]
    IN  IF a.family = "inet"
        THEN IF known.mask = <<>> THEN [leased EXCEPT !.ip = text]
             ELSE [leased EXCEPT !.ip = text, !.netmask = mask, !.network = network]
        ELSE IF legacy THEN [leased EXCEPT !.ip6 = text]
             ELSE [leased EXCEPT !.ip6 = text, !.netmask6 = mask, !.network6 = network]
\* An address that does not make an adapter primary; 169 stands for 169.254.
IgnoredAddress(a) ==
    IF a.family = "inet" THEN a.address = <<127, 1>> \/ a.address[1] = 169
    ELSE LocalAddress("inet6", a.address)
\* Ethernet and wireless adapters that are up.
UsedAdapters(h) ==
    SelectSeq(h.adapters, LAMBDA a : a.up /\ a.type \in {"ethernet", "ieee80211"})
\* The last address of each family is the adapter's.
LastAddresses(a) ==
    LET Of(family) == SelectSeq(a.addrs, LAMBDA x : x.family = family)
        LastOf(seq) == IF seq = <<>> THEN {} ELSE {Last(seq)}
    IN  LastOf(Of("inet")) \cup LastOf(Of("inet6"))
WindowsNetworking(h) ==
    LET used == UsedAdapters(h)
        Interface(a) ==
            FoldLeft(LAMBDA i, x : WindowsAddress(i, x, h.legacy, h.masks),
                     [NoInterface EXCEPT !.name = a.name, !.mac = a.mac, !.mtu = a.mtu,
                          !.dhcp = IF a.dhcp /\ ~h.legacy THEN a.server ELSE ""], a.addrs)
        primary == FirstRow(used, LAMBDA a : \E x \in LastAddresses(a) : ~IgnoredAddress(x),
                            [name |-> ""])
        suffix == FirstRow(used, LAMBDA a : a.suffix # "", [suffix |-> ""])
        host == [hostname |-> h.hostname, fqdn |-> "", domain |-> h.domain,
                 primary |-> "", interfaces |-> <<>>]
    IN  IF ~h.addresses THEN host
        ELSE [host EXCEPT !.domain = IF @ = "" THEN suffix.suffix ELSE @,
                          !.primary = primary.name,
                          !.interfaces = [i \in DOMAIN used |-> Interface(used[i])]]

\* -------------------------------------------------------------- operating system

WindowsHardware(h) ==
    CASE h.processor = "AMD64" -> "x86_64"
      [] h.processor = "ARM"   -> "arm"
      [] h.processor = "IA64"  -> "ia64"
      [] h.processor = "INTEL" -> "i" \o ToString(Min({h.level, 6})) \o "86"
      [] OTHER                 -> "unknown"
WindowsArchitecture(hardware) ==
    IF hardware \in {"i386", "i486", "i586", "i686"} THEN "x86"
    ELSE IF hardware = "x86_64" THEN "x64" ELSE hardware
\* Rows of a version, what a workstation and what a server of it is called.
WindowsReleases ==
    {<<<<"6", "3">>, "8.1", "2012 R2">>, <<<<"6", "2">>, "8", "2012">>,
     <<<<"6", "1">>, "7", "2008 R2">>, <<<<"6", "0">>, "Vista", "2008">>}
WindowsRelease(release, workstation, r2) ==
    LET version == Front(release)
        rows == {r \in WindowsReleases : r[1] = version}
    IN  CASE version = <<"6", "4">> -> IF workstation THEN <<"10">> ELSE release
          [] version = <<"5", "2">> ->
               IF workstation THEN <<"XP">> ELSE IF r2 THEN <<"2003 R2">> ELSE <<"2003">>
          [] OTHER -> IF rows = {} THEN release
                      ELSE LET r == CHOOSE q \in rows : TRUE
                           IN  <<IF workstation THEN r[2] ELSE r[3]>>
WindowsOs(h, f) ==
    LET base == [BaseOs(f) EXCEPT !.family = "windows", !.hardware = WindowsHardware(h),
                                  !.architecture = WindowsArchitecture(WindowsHardware(h)),
                                  !.system32 = h.system32]
        release == WindowsRelease(base.release, h.wmi.producttype = "1",
                                  h.wmi.othertypedescription = "R2")
    IN  IF Len(base.release) < 2 \/ ~h.wmi.os THEN base
        ELSE [base EXCEPT !.release = release, !.major = release]

\* -------------------------------------------------------------- processors and the rest

Isas == "0" :> "x86" @@ "1" :> "MIPS" @@ "2" :> "Alpha" @@ "3" :> "PowerPC" @@ "5" :> "ARM"
            @@ "6" :> "Itanium-based systems" @@ "9" :> "x64"
WindowsProcessor(h) ==
    LET cpus == h.wmi.processors
        isas == SelectSeq([i \in DOMAIN cpus |-> Get(Isas, cpus[i].architecture, "")],
                          LAMBDA s : s # "")
        logical == FoldLeft(LAMBDA s, c : s + c.logical, 0, cpus)
    IN  [isa |-> IF isas = <<>> THEN "" ELSE Head(isas),
         models |-> [i \in DOMAIN cpus |-> cpus[i].name], physical_count |-> Len(cpus),
         logical_count |-> IF logical = 0 THEN Len(cpus) ELSE logical, speed |-> 0]

WindowsTimezone(h) == IF Len(h.zone) >= 80 THEN "" ELSE h.zone
WindowsUptime(h) == IF ~h.wmi.os THEN -1 ELSE h.wmi.now - h.wmi.boot

WindowsHypervisor(h) ==
    LET byModel == FirstWord(<<<<"VirtualBox", "virtualbox">>, <<"VMware", "vmware">>,
                               <<"KVM", "kvm">>, <<"Bochs", "bochs">>>>, {h.wmi.model}, "")
    IN  CASE byModel # "" -> byModel
          [] h.wmi.model = "Virtual Machine" /\ h.wmi.maker = "Microsoft" -> "hyperv"
          [] h.wmi.maker = "Xen" -> "xen"
          [] OTHER -> ""

\* Exceptions nothing catches: the address of a DHCP server there is none of cannot be
\* converted; a number or a date WMI does not give cannot be parsed (-1).
WindowsRaises(h, resolver) ==
    CASE resolver = "networking" ->
           h.addresses /\ ~h.legacy
               /\ \E a \in ToSet(UsedAdapters(h)) : a.dhcp /\ a.server = ""
      [] resolver = "processor" ->
           LET cpus == h.wmi.processors
           IN  \E i \in DOMAIN cpus :
                   \/ cpus[i].logical < 0
                   \/ cpus[i].architecture = ""
                          /\ \A j \in 1 .. i - 1 : cpus[j].architecture \notin DOMAIN Isas
      [] resolver = "uptime" -> h.wmi.os /\ (h.wmi.boot < 0 \/ h.wmi.now < 0)
      [] OTHER -> FALSE
=============================================================================
