----------------------------- MODULE MCApkBuild -----------------------------
(* ApkBuild on small instances for TLC.                                     *)
EXTENDS ApkBuild

LocalApk == [mode |-> "local", platform |-> "android", type |-> "apk"]

\* One kind per extension, and a combination that is refused.
SomeKinds == {
    LocalApk,
    [mode |-> "cloud", platform |-> "android", type |-> "aab"],
    [mode |-> "cloud", platform |-> "ios", type |-> "apk"],
    [mode |-> "local", platform |-> "ios", type |-> "apk"]}
=============================================================================
