SPECIFICATION Spec
CONSTANTS
  r = r
  a = a
  b = b
  x = x
  xx = xx
  y = y
  z = z
  g = g
  i = i
  reg = reg
  ask = ask
  web = web
  opaque = opaque
  who = who
  v1 = v1
  v2 = v2
  Modules <- MCModules
  Root = r
  Tokens <- MCTokens
  MultiTokens = {g, i}
  GuardToken = g
  InterceptorToken = i
  RegistryToken = reg
  Roles = {"p", "q"}
  Spelled <- MCSpelled
  Request = ask
  HttpRequest = web
  Opaque = opaque
  NameOf <- MCNameOf
  Inquirer = who
  Layers = 4
  Annotations <- MCAnnotations
  Families <- MCFamilies
  Paths <- MCPaths
  Templates <- MCTemplates
  Literals <- MCLiterals
  Answers <- MCAnswers
  Alternate <- MCAlternate
  Methods <- MCMethods
  Versions = {v1, v2}
  Neutral = neutral
  Prefixed <- MCPrefixed
  Canonical <- MCCanonical
\* Every application ends served or refused.
CHECK_DEADLOCK FALSE
INVARIANT GraphIsDeclared
INVARIANT LifetimesHold
INVARIANT AnsweredAsDeclared
INVARIANT GuardedByDeclaration
INVARIANT CalledAsWritten
