\* Whether a node with exactly a tenth of its space free has a problem.
CONSTANTS
    MaxWord = 127
    Reports <- MCReports
    Hosts = {"h1", "h2"}
    BadHosts = {""}
    Ports = {1, 2}
    NoPort = 0
    Nowhere = "nowhere"
    Pieces <- MCPieces
    Numbers <- MCNumbers
    Silent <- MCSilent
    Tables <- MCTables
    Deployments <- MCDeployments
    Forms <- MCForms
    Texts <- MCTexts
SPECIFICATION RulesSpec
INVARIANTS FreeSpaceIsBelowATenth
