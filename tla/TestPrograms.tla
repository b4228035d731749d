---------------------------- MODULE TestPrograms ----------------------------
(***************************************************************************)
(* The programs test-lab-3-a.c and test-lab-3-b.c as the system calls that *)
(* they make.  Each call says how it must end: ok, or with an error.  A    *)
(* directory is given as on the command line, by the mount point that it   *)
(* is reached through.  A file of many bytes is a few units of data, and   *)
(* ten files are two.  Where a program sleeps until its child must have    *)
(* ended, it waits for the child.                                          *)
(***************************************************************************)
EXTENDS Naturals, Sequences

CONSTANT MountOrder    \* the clients, in the order in which start.sh starts them

yfs1 == MountOrder[1]
yfs2 == MountOrder[2]

At(mount, dir) == [mount |-> mount, dir |-> dir]

Mkdir(d) == [op |-> "mkdir", d |-> d, name |-> d.dir, want |-> "ok"]
Access(d) == [op |-> "access", d |-> d, want |-> "ok"]
Creat(d, f) == [op |-> "creat", d |-> d, name |-> f, want |-> "ok"]
Open(d, f) == [op |-> "open", d |-> d, name |-> f, want |-> "ok"]
OpenMissing(d, f) == [Open(d, f) EXCEPT !.want = "error"]
OpenAppend(d, f) == [op |-> "append", d |-> d, name |-> f, want |-> "ok"]
OpenCreate(d, f) == [op |-> "opencreate", d |-> d, name |-> f, want |-> "ok"]
Unlink(d, f) == [op |-> "unlink", d |-> d, name |-> f, want |-> "ok"]
Symlink(d, f, link) == [op |-> "symlink", d |-> d, name |-> f, link |-> link, want |-> "ok"]
Readlink(d, f, link) == [op |-> "readlink", d |-> d, name |-> f, expect |-> <<link>>, want |-> "ok"]
Readdir(d, nf) == [op |-> "readdir", d |-> d, entries |-> nf, want |-> "ok"]
Lseek(pos) == [op |-> "lseek", pos |-> pos, want |-> "ok"]
Write(unit) == [op |-> "write", data |-> <<unit>>, want |-> "ok"]
Read(n, data) == [op |-> "read", size |-> n, expect |-> data, want |-> "ok"]
Fork == [op |-> "fork", want |-> "ok"]
Reap == [op |-> "reap", want |-> "ok"]

-----------------------------------------------------------------------------
\* The functions of the test programs.
Concat(s) == LET c[i \in 0 .. Len(s)] == IF i = 0 THEN <<>> ELSE c[i - 1] \o s[i]
             IN  c[Len(s)]

create1(d, f, in) == <<Creat(d, f)>> \o [i \in DOMAIN in |-> Write(in[i])]
check1(d, f, in) == <<Open(d, f), Read(Len(in) + 1, in)>>
unlink1(d, f) == <<Unlink(d, f)>>
checknot(d, f) == <<OpenMissing(d, f)>>
append1(d, f, in) == <<OpenAppend(d, f), Write(in)>>
write1(d, f, start, n, c) == <<OpenCreate(d, f), Lseek(start)>> \o [i \in 1 .. n |-> Write(c)]
checkread(d, f, start, n, c) ==
    <<Open(d, f), Lseek(start)>> \o [i \in 1 .. n |-> Read(1, <<c>>)]

\* What file i of a prefix holds: i.
Number == <<"0", "1">>

\* EEXIST, which a concurrent createn would tolerate, no client of this program answers.
createn(d, fs) == Concat([i \in DOMAIN fs |-> <<Creat(d, fs[i]), Write(Number[i])>>])
checkn(d, fs) == Concat([i \in DOMAIN fs |-> <<Open(d, fs[i]), Read(1, <<Number[i]>>)>>])
unlinkn(d, fs) == [i \in DOMAIN fs |-> Unlink(d, fs[i])]
dircheck(d, nf) == <<Readdir(d, nf)>>

-----------------------------------------------------------------------------
\* The two names of the one test directory, and how test-lab-3-a begins.
d1 == At(yfs1, "d")
d2 == At(yfs2, "d")
Opening == <<Mkdir(d1), Access(d2)>>

aa == <<"aa-0", "aa-1">>
bb == <<"bb-0", "bb-1">>
xx == <<"xx-0", "xx-1">>
yy == <<"yy-0", "yy-1">>
zz == <<"zz-0", "zz-1">>
big == <<"x", "x", "x">>
huge == <<"0", "0">>

CreateThenRead ==
    create1(d1, "f1", <<"aaa">>) \o check1(d2, "f1", <<"aaa">>) \o check1(d1, "f1", <<"aaa">>)

UnlinkFiles ==
    unlink1(d2, "f1") \o create1(d1, "fx1", <<"fxx">>) \o unlink1(d1, "fx1")
    \o checknot(d1, "f1") \o checknot(d2, "f1")
    \o create1(d1, "f2", <<"222">>) \o unlink1(d2, "f2")
    \o checknot(d1, "f2") \o checknot(d2, "f2")
    \o create1(d1, "f3", <<"333">>) \o check1(d2, "f3", <<"333">>) \o check1(d1, "f3", <<"333">>)
    \o unlink1(d1, "f3") \o create1(d2, "fx2", <<"22">>) \o unlink1(d2, "fx2")
    \o checknot(d2, "f3") \o checknot(d1, "f3")

AppendToFile ==
    create1(d2, "f1", <<"aaa">>) \o append1(d1, "f1", "bbb") \o append1(d2, "f1", "ccc")
    \o check1(d1, "f1", <<"aaa", "bbb", "ccc">>) \o check1(d2, "f1", <<"aaa", "bbb", "ccc">>)

ReadDirectory ==
    dircheck(d1, 1) \o dircheck(d2, 1) \o unlink1(d1, "f1") \o dircheck(d1, 0) \o dircheck(d2, 0)
    \o create1(d2, "f2", <<"aaa">>) \o create1(d1, "f3", <<"aaa">>)
    \o dircheck(d1, 2) \o dircheck(d2, 2) \o unlink1(d2, "f2") \o dircheck(d2, 1) \o dircheck(d1, 1)
    \o unlink1(d2, "f3") \o dircheck(d1, 0) \o dircheck(d2, 0)

SequentialCreates ==
    createn(d1, aa) \o createn(d2, bb) \o dircheck(d2, 4)
    \o checkn(d2, bb) \o checkn(d2, aa) \o checkn(d1, aa) \o checkn(d1, bb)
    \o unlinkn(d1, aa) \o unlinkn(d2, bb)

BigFile ==
    create1(d1, "bf", big) \o check1(d1, "bf", big) \o check1(d2, "bf", big) \o unlink1(d1, "bf")

\* test-lab2-part1-g, which is all of this.
SequentialTests ==
    [main |-> Opening \o CreateThenRead \o UnlinkFiles \o AppendToFile \o ReadDirectory
              \o SequentialCreates \o BigFile,
     child |-> <<>>]

ConcurrentCreates ==
    [main |-> Opening \o <<Fork>> \o createn(d1, yy) \o <<Reap>> \o dircheck(d1, 4)
              \o checkn(d1, xx) \o checkn(d2, yy) \o unlinkn(d1, xx) \o unlinkn(d1, yy),
     child |-> createn(d2, xx)]

ConcurrentCreatesOfSameFile ==
    [main |-> Opening \o <<Fork>> \o createn(d1, zz) \o <<Reap>> \o dircheck(d1, 2)
              \o checkn(d1, zz) \o checkn(d2, zz) \o unlinkn(d1, zz),
     child |-> createn(d2, zz)]

ConcurrentCreateDelete ==
    [main |-> Opening \o createn(d1, <<"x1">>) \o createn(d2, <<"x2">>) \o <<Fork>>
              \o createn(d1, <<"x4">>) \o <<Reap>> \o unlinkn(d2, <<"x2">>)
              \o unlinkn(d2, <<"x4">>) \o unlinkn(d2, <<"x3">>) \o dircheck(d1, 0),
     child |-> unlinkn(d2, <<"x1">>) \o createn(d1, <<"x3">>)]

SameFileSameServer ==
    [main |-> Opening \o <<Fork>> \o createn(d1, zz) \o <<Reap>> \o dircheck(d1, 2)
              \o checkn(d1, zz) \o unlinkn(d1, zz),
     child |-> createn(d1, zz)]

WritesToParts ==
    [main |-> Opening \o create1(d1, "www", huge) \o <<Fork>> \o write1(d1, "www", 0, 1, "1")
              \o <<Reap>> \o checkread(d1, "www", 0, 1, "1") \o checkread(d2, "www", 0, 1, "1")
              \o checkread(d1, "www", 1, 1, "2") \o checkread(d2, "www", 1, 1, "2"),
     child |-> write1(d2, "www", 1, 1, "2")]

\* test-lab-3-b: a directory for each process.
da == At(yfs1, "da")
db == At(yfs2, "db")

SeparateDirectories ==
    [main |-> <<Mkdir(da), Mkdir(db), Access(At(yfs2, "da")), Fork>> \o createn(da, yy)
              \o unlinkn(da, <<yy[1]>>) \o <<Reap>> \o dircheck(da, 1) \o dircheck(db, 1),
     child |-> createn(db, xx) \o unlinkn(db, <<xx[1]>>)]

\* test-lab2-part1-d.sh: links to a file of the same directory, which is made anew.
SymlinkTest ==
    [main |-> Opening \o create1(d1, "hosts_copy", <<"hosts">>)
              \o <<Symlink(d1, "testhostslink", "hosts_copy")>>
              \o <<Readlink(d1, "testhostslink", "hosts_copy")>>
              \o unlink1(d1, "hosts_copy") \o create1(d1, "hosts_copy", <<>>)
              \o <<Readlink(d2, "testhostslink", "hosts_copy")>> \o check1(d2, "hosts_copy", <<>>),
     child |-> <<>>]

-----------------------------------------------------------------------------
\* What two processes may do to one file and its directory, on one mount point or two,
\* without an expectation of their own.
Perhaps(calls) == [i \in DOMAIN calls |-> [calls[i] EXCEPT !.want = "any"]]

Deeds(d, g) ==
    {<<Open(d, "f"), Read(2, <<>>)>>, <<OpenAppend(d, "f"), Write("a")>>, <<Creat(d, "f")>>,
     <<Unlink(d, "f")>>, <<Readdir(d, 0)>>, <<Creat(d, g), Write("g")>>}

Pairs == {[main |-> Opening \o create1(d1, "f", <<"0">>) \o <<Fork>> \o Perhaps(deed) \o <<Reap>>,
           child |-> Perhaps(other)] : deed \in Deeds(d1, "g"), other \in Deeds(d2, "h") \cup Deeds(d1, "h")}

Names == {"d", "da", "db", "f1", "f2", "f3", "fx1", "fx2", "x1", "x2", "x3", "x4", "bf", "www",
          "hosts_copy", "testhostslink", "f", "g", "h"}
         \cup UNION {{ns[i] : i \in DOMAIN ns} : ns \in {aa, bb, xx, yy, zz}}
Units == {"0", "1", "2", "a", "g", "h", "x", "aaa", "bbb", "ccc", "222", "333", "fxx", "22", "hosts"}
=============================================================================
