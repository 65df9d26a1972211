------------------------------- MODULE MCLambda -------------------------------
(* Instances of LambdaEnvironment for TLC: two clients, two fees whose second *)
(* versions start while the environment lives, one fee yet to start, one that *)
(* is malformed.                                                              *)
EXTENDS LambdaEnvironment

Version(at, free, cost) == [from |-> at, isVariable |-> free, amount |-> cost]
MCStaticFees ==
  [petition |-> [tcsAppId |-> TRUE,
                 versions |-> <<Version(0, FALSE, 60), Version(2, FALSE, 80)>>],
   copies   |-> [tcsAppId |-> TRUE,
                 versions |-> <<Version(3, TRUE, Unset), Version(1, FALSE, Unset)>>],
   future   |-> [tcsAppId |-> TRUE, versions |-> <<Version(9, FALSE, 5)>>],
   broken   |-> [tcsAppId |-> FALSE, versions |-> <<Version(0, FALSE, 5)>>]]

Entry(who, canonical, older) ==
  [named |-> TRUE, role |-> who, keys |-> canonical, ids |-> older]
Holding(list) == [json |-> TRUE, entries |-> list]

MCContent ==
  [both  |-> Holding(<<Entry("dawson", {"petition"}, Missing),
                      Entry("vendor", Missing, {"petition", "copies"})>>),
   star  |-> Holding(<<Entry("dawson", {"*"}, Missing)>>),
   wrong |-> Holding(<<Entry("dawson", {"future", "broken"}, Missing),
                       Entry("vendor", Missing, Missing)>>)]

Request(way, who, key, paid) ==
  [endpoint |-> way, role |-> who, fee |-> key, hasAmount |-> paid, valid |-> TRUE]
MCRequests ==
  {Request("init", "dawson", "petition", FALSE), Request("init", "vendor", "copies", TRUE),
   Request("validate", "dawson", "-", FALSE), Request("validate", "vendor", "-", FALSE),
   Request("init", "none", "petition", FALSE),
   [Request("init", "dawson", "petition", FALSE) EXCEPT !.valid = FALSE]}

Config(serves, env, certificates, bearer) ==
  [api |-> serves, app |-> env, mtls |-> certificates, token |-> bearer]
MCConfigs == {Config(TRUE, "stg", TRUE, FALSE), Config(FALSE, "prod", TRUE, FALSE),
              Config(FALSE, "prod", FALSE, TRUE), Config(FALSE, "dev", FALSE, TRUE)}
===============================================================================
