SPECIFICATION RulesSpec
CONSTANTS
  ssh = ssh
  allow = allow
  q1 = q1
  q2 = q2
  nobody = nobody
  Rule = {ssh, allow}
  Allow = allow
  Request = {q1, q2}
  NoOne = nobody
  MaxVersion = 2
SYMMETRY Symmetry
CHECK_DEADLOCK FALSE
PROPERTY OthersRulesKept
 
