-------------------------- MODULE MCQualification --------------------------
(* Two artifacts, and command lines that ask for each level.               *)
EXTENDS Qualification, TLC

CONSTANTS a, b, x, y, r2

MCArtifact == {a, b}
MCBytes == {x, y}

Evidence(kinds, artifacts, soak) ==
  [i \in DOMAIN kinds |->
    [kind |-> kinds[i], artifact |-> artifacts[i], digest |-> NoDigest,
     duration |-> IF kinds[i] = "stress" THEN soak ELSE 0]]
Ask(level, unresolved, critical, evidence) ==
  [level |-> level, wellFormed |-> TRUE, unresolved |-> unresolved,
   critical |-> critical, evidence |-> evidence]

Boot      == Ask("experimental", 1, 1, Evidence(<<"boot">>, <<a>>, 0))
BootTwice == Ask("experimental", 0, 0, Evidence(<<"boot", "boot">>, <<a, b>>, 0))
Escapes   == Ask("experimental", 0, 0, Evidence(<<"boot">>, <<Escaping>>, 0))
\* A torn file of this one can be a record of its first entry alone.
BootFirst == Ask("experimental", 0, 0, Evidence(<<"boot", "stress">>, <<a, b>>, 12))
Five      == <<"boot", "install", "desktop", "shutdown", "stress">>
FiveFiles == <<a, a, a, a, b>>
\* Cut after its fourth digit, the soak is exactly enough; after the third, not.
Soaked    == Ask("compatible", 1, 0, Evidence(Five, FiveFiles, 36001))
TooShort  == Ask("compatible", 0, 0, Evidence(Five, FiveFiles, 3599))
Critical  == Ask("compatible", 1, 1, Evidence(Five, FiveFiles, 3600))
Eight     == <<"boot", "install", "desktop", "suspend-resume", "shutdown", "hotplug",
               "recovery", "stress">>
EightFiles == <<a, a, a, a, a, a, a, b>>
Certified  == Ask("certified", 0, 0, Evidence(Eight, EightFiles, 86400))
Unresolved == Ask("certified", 1, 0, Evidence(Eight, EightFiles, 86400))

\* r2 asks for little: it is the rival at the path of the record.
AllRequests == [r \in Recorder |-> IF r = r2 THEN {Boot} ELSE
  {BootTwice, Escapes, BootFirst, Soaked, TooShort, Critical, Certified, Unresolved}]
OneRequest == [r \in Recorder |-> {Boot}]

Plain(p) == [form |-> "file", at |-> p]
At(form, p) == [form |-> form, at |-> p]
Contents == [p \in {a, b, Inner, Outer} |-> x]
MCLayout == {[route |-> [p \in MCArtifact |-> IF p = a THEN Plain(a) ELSE way],
              content |-> Contents] :
             way \in {Plain(b), At("link", Inner), At("through", Inner), At("through", Outer)}}
MCChange == {[artifact |-> b, route |-> Plain(b), bytes |-> y],
             [artifact |-> b, route |-> Plain(b), bytes |-> Absent],
             [artifact |-> b, route |-> At("link", Outer), bytes |-> x],
             [artifact |-> b, route |-> At("through", Inner), bytes |-> x]}
PlainLayout == {[route |-> [p \in MCArtifact |-> Plain(p)], content |-> Contents]}
=============================================================================
