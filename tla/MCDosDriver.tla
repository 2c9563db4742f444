---------------------------- MODULE MCDosDriver -----------------------------
(* An instance of DosDriver for TLC: disks of one to three blocks.          *)
EXTENDS DosDriver

Parts(a, b, c, d) == [p \in 0 .. 3 |-> <<a, b, c, d>>[p + 1]]

MCBlank == [au |-> 1, reserved |-> 1, fats |-> 2, total |-> 9, sectors |-> 0, chs |-> 1]

Plain == [sig |-> FALSE, fat |-> FALSE, parts |-> NoPartitions, size |-> FALSE, au |-> 0,
          reserved |-> 0, fats |-> 0, total16 |-> 0, total32 |-> 0, chs |-> 0]
Boot == [Plain EXCEPT !.sig = TRUE, !.fat = TRUE, !.size = TRUE, !.au = 4,
                      !.reserved = 1, !.fats = 2, !.total16 = 3, !.chs = 1]
\* a volume that counts its sectors in 32 bits and has no geometry
BootLarge == [Boot EXCEPT !.au = 8, !.fats = 0, !.total16 = 0, !.total32 = 7, !.chs = 0]
BootUnreserved == [Boot EXCEPT !.au = 2, !.reserved = 0]
BootOther == [Boot EXCEPT !.size = FALSE]
Mbr(parts) == [Plain EXCEPT !.sig = TRUE, !.parts = parts]

Disk(b) == [l \in {0} |-> b]
Disk2(a, b) == [l \in 0 .. 1 |-> <<a, b>>[l + 1]]
Disk3(a, b, c) == [l \in 0 .. 2 |-> <<a, b, c>>[l + 1]]

MCImage == { Disk(BootLarge), Disk(BootUnreserved),
             Disk3(Mbr(Parts(1, 2, 0, 0)), Boot, BootLarge),
             Disk2(Mbr(Parts(0, 2, 0, 4)), BootOther) }

MCBlock == UNION {{m[l] : l \in DOMAIN m} : m \in MCImage}

MCWritten == {Boot}

MCOptions == {[name |-> "B", value |-> 5], [name |-> "B", value |-> 6],
              [name |-> "bad", value |-> 0]}
=============================================================================
