----------------------------- MODULE MCPlatforms -----------------------------
(* The hosts Platforms.tla is checked on: one of each platform, and variants  *)
(* of it that differ in what one resolver reads.                              *)
EXTENDS Platforms

\* A host that differs from another one in some of what it has.
But(h, changes) == changes @@ h
Variants(h, list) == <<h>> \o [i \in DOMAIN list |-> But(h, list[i])]

Inet(name, a, b, mask) ==
    [name |-> name, family |-> "inet", address |-> <<a, b>>, mask |-> mask]
Inet6(name, a, b, mask) ==
    [name |-> name, family |-> "inet6", address |-> <<a, b>>, mask |-> mask]
Link(name, mac, mtu) == [name |-> name, family |-> "link", mac |-> mac, mtu |-> mtu]
Net == <<255, 0>>
Addresses ==
    <<Link("lo", "", "65536"), Link("eth1", "02:00", "1500"), Link("eth0", "01:00", "1500"),
      Inet("lo", 127, 1, Net), Inet("eth1", 10, 7, Net), Inet("eth0", 127, 9, Net),
      Inet6("lo", 0, 1, Net), Inet6("eth1", Fe80, 7, Net)>>

Mount(name, device, isdevice, statfs, size, available) ==
    [name |-> name, device |-> device, filesystem |-> "ext4", isdevice |-> isdevice,
     statfs |-> statfs, size |-> size, available |-> available, options |-> <<"rw">>]
Mounts ==
    <<Mount("/", "/dev/sda1", TRUE, TRUE, 200000, 14), Mount("/proc", "proc", FALSE, TRUE, 0, 0),
      Mount("/mnt", "/dev/sda1", TRUE, TRUE, 1048575, 1048572),
      Mount("/odd", "/dev/sdb1", TRUE, FALSE, 7, 7)>>
Uname(sysname, version, suffix, machine) ==
    [ok |-> TRUE, sysname |-> sysname, version |-> version, suffix |-> suffix,
     machine |-> machine, build |-> <<"11", "2">>]

\* What every platform has, and what those with POSIX calls have.
Common ==
    [ruby |-> [initialized |-> TRUE, platform |-> "x", sitedir |-> "/r", version |-> "2.1"],
     path |-> [set |-> TRUE, text |-> "/bin"], augtool |-> "1.4.0", user |-> "root", zone |-> "UTC",
     ec2 |-> ("ec2_metadata" :> "map"), gce |-> ("gce" :> "map")]
Posix ==
    [group |-> "wheel", uid |-> "0", gid |-> "0", averages |-> <<"0.1", "0.2", "0.3">>,
     uname |-> Uname("Linux", <<"4", "4", "0">>, <<"-21">>, "x86_64"), isa |-> "x86_64",
     uptime |-> [days |-> 3, hours |-> 2, minutes |-> -1],
     boot |-> [ok |-> TRUE, seconds |-> 1000], now |-> 4661,
     openssl |-> TRUE,
     ssh |-> [rsa |-> (1 :> <<"ssh-rsa", "AAAA">> @@ 3 :> <<"ssh-rsa", "BBBB">>),
              dsa |-> (2 :> <<"ssh-dss">>), ecdsa |-> (5 :> <<"ecdsa", "notbase64">>),
              ed25519 |-> <<>>],
     hostname |-> <<"web", "local">>, canonical |-> <<"web", "example", "com">>,
     resolv |-> <<<<"search", "a.org">>, <<"search", "b.org">>>>,
     ifaddrs |-> TRUE, addrs |-> Addresses, mounts |-> Mounts] @@ Common

Dmi0 == [f \in {r[3] : r \in BiosRows \cup BoardRows \cup ProductRows \cup ChassisRows
                                \cup MakerRows} |-> ""]
LinuxHost ==
    [platform |-> "linux",
     release |-> ("redhat" :> [words |-> {"centos"}, version |-> <<"7", "2", "1511">>, patch |-> ""]),
     os_release |-> <<>>, cisco |-> <<>>, version_id |-> <<"2", "5">>,
     cisco_version |-> [plain |-> <<"7", "0">>, rest |-> <<"(3)">>],
     lsb_release |-> <<<<"Distributor ID", "CentOS">>, <<"Codename", "Core">>>>,
     lsb_version |-> <<"7", "2", "1511">>,
     selinux |-> [mounted |-> TRUE, policyvers |-> "28", enforce |-> "0",
                  config |-> <<<<"SELINUX", "enforcing">>, <<"SELINUXTYPE", "targeted">>>>],
     vmware |-> [version |-> <<"5", "0">>, words |-> <<>>],
     block |-> <<[device |-> TRUE, files |-> [name |-> "sda", vendor |-> "ATA", model |-> "M",
                                              product |-> "", size |-> 2047]],
                 [device |-> FALSE, files |-> [name |-> "loop0", vendor |-> "", model |-> "",
                                               product |-> "", size |-> 1]]>>,
     dmi |-> [Dmi0 EXCEPT !.bios_vendor = "Phoenix", !.product_name = "Box", !.chassis_type = "3"],
     meminfo |-> <<<<"MemTotal", 200>>, <<"MemFree", 100>>, <<"Cached", 50>>, <<"Buffers", -1>>,
                   <<"SwapTotal", 64>>, <<"SwapFree", 64>>>>,
     cpus |-> <<"0", "0", "1", "">>, max_freq |-> 2000,
     cpuinfo |-> <<[model |-> "CPU", physical |-> "0"], [model |-> "CPU", physical |-> "1"]>>,
     sysinfo |-> [ok |-> TRUE, uptime |-> 90061],
     filesystems |-> <<<<"nodev", "proc">>, <<"", "ext4">>, <<"", "fuseblk">>>>,
     blkid |-> TRUE,
     partitions |-> <<[name |-> "/dev/sda1", filesystem |-> "ext4", mount |-> "", label |-> "l",
                       partition_label |-> "", uuid |-> "u", partition_uuid |-> "", size |-> 4]>>,
     routes |-> <<<<"eth1", "0000000A">>, <<"eth1", "00000000">>>>,
     leases |-> <<<<<<"interface", "eth1">>, <<"server", "10.1">>, <<"server", "10.2">>>>,
                  <<<<"interface", "eth1">>, <<"server", "10.3">>>>>>,
     dhcpcd |-> ("eth0" :> "10.9"),
     cgroup |-> <<"/">>, virt_what |-> <<>>, vxid |-> "", vz |-> "", lve |-> FALSE,
     envid |-> "", devices |-> {}, lspci |-> <<{"Intel"}>>] @@ Posix

File(words, version) == [words |-> words, version |-> version, patch |-> ""]
LinuxVariants ==
    <<[release |-> ("debian" :> File({}, <<"8", "2">>)), cgroup |-> <<"/", "/docker">>],
      [release |-> ("debian" :> File({}, <<"wheezy">>) @@ "lsb" :> File({}, <<"14", "04", "3">>)),
       lsb_release |-> <<<<"Distributor ID", "Ubuntu">>>>, lsb_version |-> <<"14", "04">>,
       dmi |-> [Dmi0 EXCEPT !.bios_vendor = "Google"]],
      [release |-> ("suse" :> [words |-> {"openSUSE"}, version |-> <<"13">>, patch |-> "2"]),
       dmi |-> [Dmi0 EXCEPT !.product_name = "KVM"]],
      [release |-> ("oracle_enterprise_linux" :> File({}, <<"5">>)), virt_what |-> <<"xen-hvm">>],
      [release |-> ("gentoo" :> File({}, <<>>)), uname |-> Uname("Linux", <<"3">>, <<>>, "i686"),
       devices |-> {"/proc/xen"}],
      [release |-> ("fedora" :> File({"(Rawhide)"}, <<>>)
                    @@ "redhat" :> File({"Fedora release"}, <<>>)),
       lspci |-> <<{"Intel"}, {"virtio"}>>],
      [os_release |-> <<<<"NAME", "CoreOS">>>>, vxid |-> "7", virt_what |-> <<"linux_vserver">>],
      [os_release |-> <<<<"CISCO_RELEASE_INFO", "/etc/r">>>>, vz |-> "filled", envid |-> "0",
       cisco |-> <<<<"ID", "nexus">>, <<"ID_LIKE", "wrlinux">>>>],
      [release |-> ("amazon" :> File({}, <<>>)), vmware |-> [version |-> <<>>,
                                                     words |-> <<"vmware", "server">>]],
      [release |-> <<>>, lsb_version |-> <<>>, selinux |-> [mounted |-> FALSE]],
      [uname |-> [ok |-> FALSE], canonical |-> <<>>, routes |-> <<>>, cpus |-> <<>>],
      [addrs |-> <<Inet("eth0", 10, 5, Net), Inet("eth0", 192, 6, <<255, 255>>),
                   Inet6("eth0", 32, 6, <<>>)>>, canonical |-> <<"www", "org">>,
       resolv |-> <<<<"search", "a.org">>, <<"domain", "c.org">>>>],
      [ifaddrs |-> FALSE, hostname |-> <<>>, meminfo |-> <<<<"MemTotal", 0>>>>, blkid |-> FALSE],
      [meminfo |-> <<<<"MemTotal", 200>>, <<"SwapTotal", 1>>, <<"MemFree", 150>>, <<"Cached", 60>>>>,
       sysinfo |-> [ok |-> FALSE], ruby |-> [initialized |-> FALSE]],
      [mounts |-> <<Mount("/", "/dev/sda1", TRUE, TRUE, 100, 101)>>, user |-> "", group |-> "",
       openssl |-> FALSE, path |-> [set |-> FALSE], averages |-> <<>>, augtool |-> ""]>>

OsxHost ==
    [platform |-> "osx", model |-> "MacBookPro11,4", uname |-> Uname("Darwin", <<"14", "5">>, <<>>,
     "x86_64"),
     memory |-> [total |-> 400000, stats |-> TRUE, free |-> 60, speculative |-> 8, page_size |-> 4096,
                 swap |-> [ok |-> TRUE, total |-> 1024, used |-> 24, encrypted |-> TRUE]],
     default_route |-> <<<<"interface", "eth1">>>>, ipconfig |-> ("eth1" :> "10.1"),
     sw_vers |-> <<<<"ProductName", "Mac OS X">>, <<"BuildVersion", "14F">>,
                   <<"ProductVersion", <<"10", "10", "5">>>>>>,
     sysctl |-> [logicalcpu_max |-> 2, physicalcpu_max |-> 1, cpufrequency_max |-> 2500,
                 brand |-> "CPU"],
     profiler |-> <<<<"Model Identifier", "Mac">>, <<"Hardware", "">>, <<"User Name", "me">>>>,
     subsystems |-> {}, fsstat |-> TRUE] @@ Posix
OsxVariants ==
    <<[profiler |-> <<<<"Model Identifier", "VMware">>>>, sw_vers |-> <<>>],
      [profiler |-> <<<<"Boot ROM Version", "VirtualBox">>>>, default_route |-> <<>>],
      [subsystems |-> {"0x1ab8"}, fsstat |-> FALSE,
       sw_vers |-> <<<<"ProductVersion", <<"10", "10">>>>>>],
      [boot |-> [ok |-> FALSE]]>>

BsdHost ==
    [platform |-> "bsd", fsstat |-> TRUE,
     uname |-> Uname("FreeBSD", <<"10", "2">>, <<"-RELEASE">>, "amd64")] @@ Posix

SolarisHost ==
    [platform |-> "solaris", uname |-> Uname("SunOS", <<"5", "11">>, <<>>, "i86pc"),
     sderr |-> <<[name |-> "c1t0", vendor |-> "V", model |-> "", product |-> "P", size |-> 4096]>>,
     smbios |-> [bios |-> <<<<"Vendor", "V">>>>, system |-> <<<<"Product", "P">>, <<"UUID", "u">>>>,
                 chassis |-> <<>>],
     prtconf |-> "Sun", sparc_product |-> "T5", sysdef |-> {"zfs"},
     memory |-> [kstat |-> TRUE, physmem |-> 20, pagesfree |-> 5, page_size |-> 8192,
                 swapctl |-> TRUE, devices |-> <<[pages |-> 4, free |-> 4], [pages |-> 2, free |-> 1]>>],
     addrs |-> <<[mac |-> "", mtu |-> "8232"] @@ Inet("lo", 127, 1, Net),
                 [mac |-> "03:00", mtu |-> "1500"] @@ Inet("eth0", 10, 3, Net),
                 [mac |-> "03:00", mtu |-> "1500"] @@ Inet("eth0", 11, 4, <<>>),
                 [mac |-> "03:00", mtu |-> "1500"] @@ Inet6("eth0", 9, 4, Net)>>,
     netstat |-> <<<<"default", "eth0">>>>, dhcpinfo |-> ("eth0" :> "10.1"),
     etc_release |-> <<<<"Oracle">>, <<"dotted", "11", "2">>>>,
     cpu_info |-> <<[brand |-> "B", chip_id |-> 0, clock |-> 0], [brand |-> "B", chip_id |-> 0,
                     clock |-> 2300], [brand |-> "", chip_id |-> 1, clock |-> 1]>>,
     zonename |-> "global", prtdiag |-> <<"Sun", "VMware">>, prtdiag_slow |-> FALSE,
     virtinfo |-> <<"guest">>, zfs |-> [versions |-> <<"5">>, features |-> <<"1", "2">>],
     zpool |-> [versions |-> <<"28", "34">>, features |-> <<"1">>],
     zoneadm |-> <<[id |-> "0", name |-> "global", status |-> "running", path |-> "/", uuid |-> "",
                    brand |-> "ipkg", iptype |-> "shared"]>>] @@ Posix
SolarisVariants ==
    <<[zonename |-> "web", etc_release |-> <<<<"update", "10", "11">>>>, netstat |-> <<>>],
      [uname |-> Uname("SunOS", <<"5", "11">>, <<>>, "sparc"), zoneadm |-> <<>>],
      [prtdiag_slow |-> TRUE, etc_release |-> <<<<"plain", "11">>>>],
      [uname |-> [ok |-> FALSE], boot |-> [ok |-> FALSE], ifaddrs |-> FALSE]>>

AixHost ==
    [platform |-> "aix", uname |-> Uname("AIX", <<"1">>, <<>>, "00F"), oslevel |-> TRUE,
     rml_cache |-> <<<<71, 3, 3, 1415>>, <<71, 3, 4, 1441>>, <<71, 3, 2, 1500>>>>,
     rml_regenerated |-> <<<<71, 1, 1, 1>>>>,
     lsattr |-> [type |-> "PowerPC_POWER7", modelname |-> "IBM"]] @@ Posix
AixVariants == <<[rml_cache |-> <<>>], [rml_cache |-> <<>>, oslevel |-> FALSE]>>

Adapter(name, up, suffix, server, addrs) ==
    [name |-> name, up |-> up, type |-> "ethernet", suffix |-> suffix, dhcp |-> TRUE,
     server |-> server, addrs |-> addrs, mac |-> "04:00", mtu |-> "1500"]
Wmi ==
    [os |-> TRUE, product |-> "P", serial |-> "1", manufacturer |-> "M", producttype |-> "3",
     othertypedescription |-> "", boot |-> 100, now |-> 7300, model |-> "", maker |-> "Xen",
     processors |-> <<[name |-> "CPU", architecture |-> "9", logical |-> 4]>>]
WindowsHost ==
    [platform |-> "windows", haswmi |-> TRUE, hostname |-> "web", domain |-> "", addresses |-> TRUE,
     version |-> <<"6", "1", "7601", "17514">>, legacy |-> FALSE, masks |-> <<>>,
     memory |-> [ok |-> TRUE, total |-> 50, available |-> 20, page_size |-> 4096],
     adapters |-> <<Adapter("eth1", FALSE, "x.org", "10.1", <<>>),
                    Adapter("eth0", TRUE, "", "10.1", <<Inet("eth0", 10, 8, Net),
                                                        Inet6("eth0", Fe80, 8, Net)>>)>>,
     processor |-> "AMD64", level |-> 6, system32 |-> "c:\\windows\\system32", wmi |-> Wmi] @@ Common
WindowsVariants ==
    <<[haswmi |-> FALSE, domain |-> "a.org", processor |-> "INTEL"],
      [wmi |-> [Wmi EXCEPT !.model = "Virtual Machine", !.maker = "Microsoft"],
       version |-> <<"5", "2", "3790">>],
      [wmi |-> [Wmi EXCEPT !.processors[1].architecture = ""]],
      [wmi |-> [Wmi EXCEPT !.boot = -1, !.os = TRUE], version |-> <<>>],
      [adapters |-> <<Adapter("eth0", TRUE, "", "", <<>>)>>, processor |-> "ARM"],
      [legacy |-> TRUE, masks |-> ("10.8" :> [mask |-> Net, dhcp |-> "10.2"]),
       memory |-> [ok |-> FALSE]],
      [adapters |-> <<Adapter("eth0", TRUE, "a.org", "10.1", <<Inet("eth0", 169, 1, Net)>>),
                      Adapter("eth1", TRUE, "b.org", "10.1", <<Inet("eth1", 10, 1, Net)>>)>>],
      [addresses |-> FALSE, processor |-> "?"]>>

MCHosts ==
    Variants(LinuxHost, LinuxVariants) \o Variants(OsxHost, OsxVariants) \o <<BsdHost>>
        \o Variants(SolarisHost, SolarisVariants) \o Variants(AixHost, AixVariants)
        \o Variants(WindowsHost, WindowsVariants)
MCQueries ==
    {"ec2_metadata", "os", "virtual", "kernel", "kernelrelease", "productname", "bios_vendor",
     "ipaddress_eth0", "processor0", "memory", "zone_global_id", "sp_machine_model",
     "architecture", "gce", "uptime"}
MCWord == 2 ^ 24
MCWord32 == 2 ^ 20
=============================================================================
